---- MODULE Spec2Model ----
(***************************************************************************)
(* Step-by-step geometry proof grader (backend/graders/formalgeo_grader.py) *)
(* FormalGeoStepGrader: knowledge base, step verifier, theorem application, *)
(* scoring and report.  Strings are sequences of one-character strings, so  *)
(* that the regular expressions of the parser are modelled by what they do. *)
(* Confidences are integers in percent (0.85 is 85).                        *)
(***************************************************************************)
EXTENDS Integers, Sequences, FiniteSets, TLC

\* ------------------------------------------------------------------ bounds
MaxRouteSteps == 2
MaxDepSteps == 3
MaxScoreSteps == 5
MaxThmCalls == 2
MaxNamedSteps == 2
MaxRawEntries == 2
MaxTheorems == 2
MaxSnapshotCalls == 5
MaxChainSteps == 3
MaxPipelineClaims == 3

\* -------------------------------------------------------------- characters
UpperSeq ==
  <<"A", "B", "C", "D", "E", "F", "G", "H", "I", "J", "K", "L", "M", "N", "O", "P",
    "Q", "R", "S", "T", "U", "V", "W", "X", "Y", "Z">>
LowerSeq ==
  <<"a", "b", "c", "d", "e", "f", "g", "h", "i", "j", "k", "l", "m", "n", "o", "p",
    "q", "r", "s", "t", "u", "v", "w", "x", "y", "z">>
Upper == {UpperSeq[i] : i \in 1..Len(UpperSeq)}
Lower == {LowerSeq[i] : i \in 1..Len(LowerSeq)}
Digit == {"0", "1", "2", "3", "4", "5", "6", "7", "8", "9"}

\* the character classes \s, \w and [A-Za-z_] of the patterns
SpaceChars == {" "}
WordChars == Upper \cup Lower \cup Digit \cup {"_"}
IdentStart == Upper \cup Lower \cup {"_"}

SetMin(S) == CHOOSE i \in S : \A j \in S : i <= j
SetMax(S) == CHOOSE i \in S : \A j \in S : j <= i

\* s cut down to the span of the indices idx
TrimTo(s, idx) == IF idx = {} THEN <<>> ELSE SubSeq(s, SetMin(idx), SetMax(idx))

\* str.strip()
Strip(s) == TrimTo(s, {i \in 1..Len(s) : s[i] \notin SpaceChars})

\* str.startswith(p)
StartsWith(s, p) == Len(s) >= Len(p) /\ SubSeq(s, 1, Len(p)) = p

\* c in s, for a one-character c
HasChar(s, c) == \E i \in 1..Len(s) : s[i] = c

\* the elements of s at the indices satisfying keep, in order
RECURSIVE PickFrom(_, _, _)
PickFrom(s, keepIdx, i) ==
  IF i > Len(s) THEN <<>>
  ELSE (IF i \in keepIdx THEN <<s[i]>> ELSE <<>>) \o PickFrom(s, keepIdx, i + 1)

\* ------------------------------------------------------ names used as text
sEqual == <<"E", "q", "u", "a", "l">>
sEqualOpen == <<"E", "q", "u", "a", "l", "(">>
sEquation == <<"E", "q", "u", "a", "t", "i", "o", "n">>
sLine == <<"L", "i", "n", "e">>
sAngle == <<"A", "n", "g", "l", "e">>
sStar == <<"S", "t", "a", "r">>

\* --------------------------------------------------------------- the parser
\* re.match(r'(\w+)\((.*)\)', claim.strip()): the name is the maximal run of
\* word characters at the start, it is followed by "(", and the greedy .*
\* runs to the last ")" of the string.
NameLen(s) == SetMax({k \in 0..Len(s) : \A i \in 1..k : s[i] \in WordChars})

\* the index of the last ")" of s, 0 when there is none
LastClose(s) == SetMax({0} \cup {j \in 1..Len(s) : s[j] = ")"})

\* the pattern matches s, whose name has n characters
ClaimMatches(s, n) ==
  /\ n >= 1
  /\ Len(s) > n
  /\ s[n + 1] = "("
  /\ LastClose(s) > n + 1

\* re.findall(r'\b([A-Z]+)\b', args): the maximal runs of word characters
\* made of upper-case letters only; flattened into single letters.
InAllUpperRun(a, i) ==
  /\ a[i] \in Upper
  /\ \A j \in 1..Len(a) :
       (\A k \in (IF i <= j THEN i..j ELSE j..i) : a[k] \in WordChars) => a[j] \in Upper

PointLetters(a) == PickFrom(a, {i \in 1..Len(a) : InAllUpperRun(a, i)}, 1)

\* the groups of the match on the stripped claim s, whose name has n characters
ParseMatch(s, n) ==
  IF ~ClaimMatches(s, n)
  THEN [ok |-> FALSE, predicate |-> <<>>, item |-> <<>>]
  ELSE [ok |-> TRUE, predicate |-> SubSeq(s, 1, n),
        item |-> PointLetters(SubSeq(s, n + 2, LastClose(s) - 1))]

\* parse_claim_to_predicate: [ok, predicate, item]; ok = FALSE is ValueError
parse_claim_to_predicate(claim_cdl) == ParseMatch(Strip(claim_cdl), NameLen(Strip(claim_cdl)))

\* ----------------------------------------------------------- the '=' rewrite
\* claim_cdl.split("=", 1) with both sides stripped
FirstEq(s) == SetMin({i \in 1..Len(s) : s[i] = "="})

\* Equal(left,right) when both sides are not empty
RewriteSides(claim_cdl, left, right) ==
  IF left # <<>> /\ right # <<>>
  THEN sEqualOpen \o left \o <<",">> \o right \o <<")">>
  ELSE claim_cdl

RewriteEquals(claim_cdl) ==
  IF HasChar(claim_cdl, "=") /\ ~StartsWith(Strip(claim_cdl), sEqualOpen)
  THEN RewriteSides(claim_cdl,
                    Strip(SubSeq(claim_cdl, 1, FirstEq(claim_cdl) - 1)),
                    Strip(SubSeq(claim_cdl, FirstEq(claim_cdl) + 1, Len(claim_cdl))))
  ELSE claim_cdl

\* -------------------------------------------------- splitting at depth zero
\* the parenthesis depth after reading s[1..i]
RECURSIVE DepthAt(_, _)
DepthAt(s, i) ==
  IF i = 0 THEN 0
  ELSE DepthAt(s, i - 1) + (IF s[i] = "(" THEN 1 ELSE IF s[i] = ")" THEN -1 ELSE 0)

\* _split_by_comma / _split_by_operator: cut at every sep read at depth 0;
\* the last piece is kept only when it is not empty.
RECURSIVE SplitFrom(_, _, _, _)
SplitFrom(s, sep, i, current) ==
  IF i > Len(s) THEN (IF current # <<>> THEN <<current>> ELSE <<>>)
  ELSE IF s[i] = sep /\ s[i] \notin {"(", ")"} /\ DepthAt(s, i - 1) = 0
       THEN <<current>> \o SplitFrom(s, sep, i + 1, <<>>)
       ELSE SplitFrom(s, sep, i + 1, Append(current, s[i]))

_split_by_comma(expr) == SplitFrom(expr, ",", 1, <<>>)

_split_by_operator(expr, operator) == SplitFrom(expr, operator, 1, <<>>)

\* ------------------------------------------------ normalising Equal claims
\* the last index of the maximal run of characters of the class cs that
\* starts at i (i - 1 when s[i] is not in cs or i is past the end)
RunEnd(s, i, cs) == SetMax({e \in (i - 1)..Len(s) : \A k \in i..e : s[k] \in cs})

\* One match of (\d+)\s*\*\s*([A-Za-z_][A-Za-z0-9_]*(?:\([^)]+\))?) starting
\* at i: [ok, digits, token, last].  The pattern is read left to right: the
\* digits end at d, the star is at star, the token runs from t0 to t1 and,
\* with its optional parenthesised group, to last.
NoMulMatch == [ok |-> FALSE, digits |-> <<>>, token |-> <<>>, last |-> 0]

MulGroupEnd(s, t1) ==
  IF /\ t1 + 2 <= Len(s)
     /\ s[t1 + 1] = "("
     /\ s[t1 + 2] # ")"
     /\ \E j \in (t1 + 3)..Len(s) : s[j] = ")"
  THEN SetMin({j \in (t1 + 3)..Len(s) : s[j] = ")"})
  ELSE t1

MulToken(s, i, d, t0) ==
  IF t0 > Len(s) \/ s[t0] \notin IdentStart THEN NoMulMatch
  ELSE [ok |-> TRUE, digits |-> SubSeq(s, i, d),
        token |-> SubSeq(s, t0, MulGroupEnd(s, RunEnd(s, t0, WordChars))),
        last |-> MulGroupEnd(s, RunEnd(s, t0, WordChars))]

MulStar(s, i, d, star) ==
  IF star > Len(s) \/ s[star] # "*" THEN NoMulMatch
  ELSE MulToken(s, i, d, RunEnd(s, star + 1, SpaceChars) + 1)

MulDigits(s, i, d) ==
  IF i > Len(s) \/ d < i THEN NoMulMatch
  ELSE MulStar(s, i, d, RunEnd(s, d + 1, SpaceChars) + 1)

MulMatchAt(s, i) == MulDigits(s, i, RunEnd(s, i, Digit))

sMulOpen == <<"M", "u", "l", "(">>
sAddOpen == <<"A", "d", "d", "(">>

\* re.sub(mult_pattern, r'Mul(\1,\2)', expr): leftmost matches, left to right
RECURSIVE SubMul(_, _)

\* the match m at i is replaced and the scan goes on after it
SubMulMatch(s, pos, i, m) ==
  SubSeq(s, pos, i - 1) \o sMulOpen \o m.digits \o <<",">> \o m.token \o <<")">>
    \o SubMul(s, m.last + 1)

SubMulFrom(s, pos, starts) ==
  IF starts = {} THEN SubSeq(s, pos, Len(s))
  ELSE SubMulMatch(s, pos, SetMin(starts), MulMatchAt(s, SetMin(starts)))

SubMul(s, pos) == SubMulFrom(s, pos, {i \in pos..Len(s) : MulMatchAt(s, i).ok})

\* result = terms[0].strip(); for term in terms[1:]: result = Add(result,term)
RECURSIVE FoldAdd(_, _, _)
FoldAdd(result, terms, k) ==
  IF k > Len(terms) THEN result
  ELSE FoldAdd(sAddOpen \o result \o <<",">> \o Strip(terms[k]) \o <<")">>, terms, k + 1)

\* the '+' step on the expression e1 and its terms
NormalizeSum(e1, terms) ==
  IF HasChar(e1, "+") /\ Len(terms) > 1 THEN FoldAdd(Strip(terms[1]), terms, 2) ELSE e1

\* the '*' step and what follows it
NormalizeProduct(e1) == NormalizeSum(e1, _split_by_operator(e1, "+"))

NormalizeStripped(expr) ==
  IF ~\E op \in {"+", "-", "*", "/"} : HasChar(expr, op) THEN expr
  ELSE NormalizeProduct(SubMul(expr, 1))

_normalize_expression(expr0) == NormalizeStripped(Strip(expr0))

\* re.match(r'Equal\((.*)\)', s): the content up to the last ")"
EqualContent(s) ==
  IF StartsWith(s, sEqualOpen) /\ LastClose(s) > Len(sEqualOpen)
  THEN [ok |-> TRUE, content |-> SubSeq(s, Len(sEqualOpen) + 1, LastClose(s) - 1)]
  ELSE [ok |-> FALSE, content |-> <<>>]

\* the claim rebuilt from its two normalised sides
NormalizeParts(claim_cdl, parts) ==
  IF Len(parts) # 2 THEN claim_cdl
  ELSE sEqualOpen \o parts[1] \o <<",">> \o parts[2] \o <<")">>

NormalizeContent(claim_cdl, m) ==
  IF ~m.ok THEN claim_cdl
  ELSE NormalizeParts(claim_cdl,
                      [k \in 1..Len(_split_by_comma(m.content)) |->
                         _normalize_expression(_split_by_comma(m.content)[k])])

_normalize_equal_claim(claim_cdl) == NormalizeContent(claim_cdl, EqualContent(Strip(claim_cdl)))

\* ------------------------------------------------------ the knowledge base
\* solver.problem.condition: items_group's keys (the predicate families) and
\* the stored (predicate, item) pairs.  An Equation item is the pair of the
\* two sides of the lowered equality.
NewCondition(predicates, facts) == [predicates |-> predicates, facts |-> facts]

\* condition.has(predicate, item)
cond_has(c, predicate, item) == <<predicate, item>> \in c.facts

\* mutant: add reports success without storing the item
cond_add_NotStored(c, predicate, item) ==
  [success |-> ~cond_has(c, predicate, item), condition |-> c]

\* condition.add(predicate, item, premise, theorem): (success, condition)
cond_add(c, predicate, item) ==
  IF cond_has(c, predicate, item)
  THEN [success |-> FALSE, condition |-> c]
  ELSE [success |-> TRUE,
        condition |-> [c EXCEPT !.facts = c.facts \cup {<<predicate, item>>}]]

\* mutant: the lookup finds nothing
check_conclusion_exists_Never(c, predicate, item) == FALSE

check_conclusion_exists(c, predicate, item) ==
  predicate \in c.predicates /\ cond_has(c, predicate, item)

\* _try_add_predicate_to_kb; addRaises: condition.add raises, which the
\* handler catches and reports as (False, None)
\* mutant: no family is created for a new predicate
AddSlot_Skipped(c, predicate) == c

\* condition.items_group[predicate] = [] for a predicate that has no slot
AddSlot(c, predicate) ==
  IF predicate \notin c.predicates
  THEN [c EXCEPT !.predicates = c.predicates \cup {predicate}]
  ELSE c

\* mutant: the mirror image of a new angle is not added
AddSymmetric_NoMirror(predicate, item, r) == r

\* the outcome r of condition.add, with the mirror image of a new angle
AddSymmetric(predicate, item, r) ==
  [success |-> r.success,
   condition |-> IF r.success /\ predicate = sAngle /\ Len(item) = 3
                 THEN cond_add(r.condition, sAngle, <<item[3], item[2], item[1]>>).condition
                 ELSE r.condition]

\* mutant: the add reports success without storing the item
AddToSlot_NotStored(c1, predicate, item, addRaises) ==
  [success |-> ~addRaises, condition |-> c1]

AddToSlot(c1, predicate, item, addRaises) ==
  IF addRaises THEN [success |-> FALSE, condition |-> c1]
  ELSE AddSymmetric(predicate, item, cond_add(c1, predicate, item))

_try_add_predicate_to_kb(c, predicate, item, addRaises) ==
  AddToSlot(AddSlot(c, predicate), predicate, item, addRaises)

\* parse_problem_cdl + get_equation_from_tree on the normalised claim: the
\* equation is the pair of sides; a claim that is not Equal(lhs,rhs) with two
\* non-empty sides cannot be lowered.
LowerSides(sides) ==
  IF Len(sides) = 2 /\ sides[1] # <<>> /\ sides[2] # <<>>
  THEN [ok |-> TRUE, eq |-> <<sides[1], sides[2]>>]
  ELSE [ok |-> FALSE, eq |-> <<>>]

LowerContent(m) ==
  IF ~m.ok THEN [ok |-> FALSE, eq |-> <<>>]
  ELSE LowerSides([k \in 1..Len(_split_by_comma(m.content)) |->
                     Strip(_split_by_comma(m.content)[k])])

LowerEquation(normalized_cdl) == LowerContent(EqualContent(Strip(normalized_cdl)))

\* ------------------------------------------------------- deduction taxonomy
\* mutant: every error type gets the default entry
calculate_deduction_Default(error_type) == [points |-> 10, confidence |-> 70]

\* calculate_deduction: points and confidence (percent) per error type
calculate_deduction(error_type) ==
  CASE error_type = "global_misalignment" -> [points |-> 100, confidence |-> 95]
    [] error_type = "missing_premise" -> [points |-> 20, confidence |-> 90]
    [] error_type = "invalid_theorem" -> [points |-> 20, confidence |-> 88]
    [] error_type = "wrong_conclusion" -> [points |-> 20, confidence |-> 92]
    [] error_type = "not_derivable" -> [points |-> 20, confidence |-> 85]
    [] error_type = "unknown_theorem" -> [points |-> 20, confidence |-> 87]
    [] error_type = "unknown_predicate" -> [points |-> 15, confidence |-> 80]
    [] error_type = "computation_error" -> [points |-> 10, confidence |-> 88]
    [] error_type = "syntax_error" -> [points |-> 10, confidence |-> 85]
    [] error_type = "cascading_error" -> [points |-> 10, confidence |-> 85]
    [] OTHER -> [points |-> 10, confidence |-> 70]

\* ------------------------------------------------- StepVerificationResult
\* error_type "None" is None; root_cause_step 0 is None; theorem_applied <<>>
\* is None.
sAlgebraic == <<"a", "l", "g", "e", "b", "r", "a", "i", "c", "_", "c", "o", "n", "s", "t", "r", "a", "i", "n", "t">>
sAssumption == <<"a", "s", "s", "u", "m", "p", "t", "i", "o", "n">>

\* mutant: a syntax error is tagged as a global misalignment
StepVerificationResult_Misaligned(step_id, is_valid, error_type, points_deducted, confidence, is_redundant, theorem_applied, root_cause_step) ==
  [step_id |-> step_id, is_valid |-> is_valid,
   error_type |-> IF error_type = "syntax_error" THEN "global_misalignment" ELSE error_type,
   points_deducted |-> points_deducted, confidence |-> confidence,
   is_redundant |-> is_redundant, theorem_applied |-> theorem_applied,
   root_cause_step |-> root_cause_step]

StepVerificationResult(step_id, is_valid, error_type, points_deducted, confidence, is_redundant, theorem_applied, root_cause_step) ==
  [step_id |-> step_id, is_valid |-> is_valid, error_type |-> error_type,
   points_deducted |-> points_deducted, confidence |-> confidence,
   is_redundant |-> is_redundant, theorem_applied |-> theorem_applied,
   root_cause_step |-> root_cause_step]

\* ------------------------------------------------- the claims of the steps
cLineAB == <<"L", "i", "n", "e", "(", "A", "B", ")">>
cAngleABC == <<"A", "n", "g", "l", "e", "(", "A", "B", "C", ")">>
cAngleCBA == <<"A", "n", "g", "l", "e", "(", "C", "B", "A", ")">>
cStarAB == <<"S", "t", "a", "r", "(", "A", "B", ")">>
cEqualXY == <<"E", "q", "u", "a", "l", "(", "x", ",", "y", ")">>
cXeqY == <<"x", " ", "=", " ", "y">>
cEqualX == <<"E", "q", "u", "a", "l", "(", "x", ")">>
cEqualProduct == <<"E", "q", "u", "a", "l", "(", "2", "*", "3", "*", "x", ",", "y", ")">>
cBad == <<"A", "B">>
cOpen == <<"L", "i", "n", "e", "(", "A", "B">>
cExtraClose == <<"L", "i", "n", "e", "(", "A", "B", ")", ")">>

ClaimPool ==
  {cLineAB, cAngleABC, cAngleCBA, cStarAB, cEqualXY, cXeqY, cEqualX, cEqualProduct, cBad,
   cOpen, cExtraClose}

\* What verify_single_step computes from the claim text alone: the rewritten
\* claim, its parse, and the lowered equation of its normal form
AnalyseRewritten(claim_cdl) ==
  [claim_cdl |-> claim_cdl,
   parsed |-> parse_claim_to_predicate(claim_cdl),
   low |-> LowerEquation(_normalize_equal_claim(claim_cdl))]

AnalyseClaim(raw_cdl) == AnalyseRewritten(RewriteEquals(raw_cdl))

\* the analysis of every claim of the pool, computed once
ClaimAnalysis == [c \in ClaimPool |-> AnalyseClaim(c)]

\* -------------------------------------------------------- the step verifier
\* next((r for r in previous_results if r.step_id == dep_id), None)
HasResult(previous_results, dep_id) ==
  \E i \in 1..Len(previous_results) : previous_results[i].step_id = dep_id

FirstResult(previous_results, dep_id) ==
  previous_results[SetMin({i \in 1..Len(previous_results) :
                             previous_results[i].step_id = dep_id})]

\* mutant: only the first entry of depends_on is looked up
InvalidDeps_FirstOnly(depends_on, previous_results) ==
  {k \in 1..Len(depends_on) :
     /\ k = 1
     /\ \E i \in 1..Len(previous_results) :
          previous_results[i].step_id = depends_on[k] /\ ~previous_results[i].is_valid}

\* the positions of depends_on that name an invalid earlier result
InvalidDeps(depends_on, previous_results) ==
  {k \in 1..Len(depends_on) :
     /\ HasResult(previous_results, depends_on[k])
     /\ ~FirstResult(previous_results, depends_on[k]).is_valid}

\* mutant: the theorem name of the step is dropped
AppliedOr_Default(theorem_name, default) == default

\* theorem_name if theorem_name else default
AppliedOr(theorem_name, default) == IF theorem_name # <<>> THEN theorem_name ELSE default

\* the root cause of the earlier result of dep_id when that result is itself a
\* cascading error, dep_id otherwise
OriginOf(previous_results, dep_id) ==
  IF FirstResult(previous_results, dep_id).error_type = "cascading_error"
  THEN FirstResult(previous_results, dep_id).root_cause_step
  ELSE dep_id

\* mutant: the root cause is traced one step back along the chain
CascadeRoot_Origin(depends_on, previous_results) ==
  OriginOf(previous_results, depends_on[SetMin(InvalidDeps(depends_on, previous_results))])

\* Step 1 of verify_single_step: the first depends_on entry, in list order,
\* that names an invalid earlier result
CascadeRoot(depends_on, previous_results) ==
  depends_on[SetMin(InvalidDeps(depends_on, previous_results))]

\* mutant: an equation that is already present is reported like a new one
EquationAdded_AlwaysNew(step, r) ==
  [result |-> StepVerificationResult(step.step_id, TRUE, "None", 0, 85, FALSE,
                AppliedOr(step.theorem_name, sAlgebraic), 0),
   condition |-> r.condition]

\* Step 3: the Equal path; r is the outcome of condition.add on the equation
EquationAdded(step, r) ==
  [result |-> StepVerificationResult(step.step_id, TRUE, "None", 0,
                IF r.success THEN 85 ELSE 80, ~r.success,
                AppliedOr(step.theorem_name, sAlgebraic), 0),
   condition |-> r.condition]

\* low is the lowering of the normalised claim; addRaises: the engine raises
\* while the equation is parsed or added, which the handler of the Equal path
\* catches like a claim that cannot be lowered
VerifyEqual(step, low, c, addRaises) ==
  IF low.ok /\ ~addRaises
  THEN EquationAdded(step, cond_add(c, sEquation, low.eq))
  ELSE [result |-> StepVerificationResult(step.step_id, TRUE, "None", 0, 75,
                     FALSE, AppliedOr(step.theorem_name, sAlgebraic), 0),
        condition |-> c]

\* Step 4: the predicate is not a key of items_group
UnknownPredicateAdded(step, a) ==
  IF a.success
  THEN [result |-> StepVerificationResult(step.step_id, TRUE, "None", 0, 70, FALSE,
                     AppliedOr(step.theorem_name, sAssumption), 0),
        condition |-> a.condition]
  ELSE [result |-> StepVerificationResult(step.step_id, FALSE, "unknown_predicate",
                     calculate_deduction("unknown_predicate").points, 60, FALSE, <<>>, 0),
        condition |-> a.condition]

VerifyUnknownPredicate(step, parsed, c, addRaises) ==
  UnknownPredicateAdded(step,
    _try_add_predicate_to_kb(c, parsed.predicate, parsed.item, addRaises))

\* mutant: the failed add is reported with a confidence below the threshold
AssumptionAdded_LowConfidence(step, a) ==
  IF a.success
  THEN [result |-> StepVerificationResult(step.step_id, TRUE, "None", 0, 75, FALSE,
                     AppliedOr(step.theorem_name, sAssumption), 0),
        condition |-> a.condition]
  ELSE [result |-> StepVerificationResult(step.step_id, FALSE, "not_derivable", 20, 49,
                     FALSE, <<>>, 0),
        condition |-> a.condition]

\* Step 6: the predicate is known, the item is not in the KB
AssumptionAdded(step, a) ==
  IF a.success
  THEN [result |-> StepVerificationResult(step.step_id, TRUE, "None", 0, 75, FALSE,
                     AppliedOr(step.theorem_name, sAssumption), 0),
        condition |-> a.condition]
  ELSE [result |-> StepVerificationResult(step.step_id, FALSE, "not_derivable",
                     calculate_deduction("not_derivable").points, 50, FALSE, <<>>, 0),
        condition |-> a.condition]

VerifyAssumption(step, parsed, c, addRaises) ==
  AssumptionAdded(step, _try_add_predicate_to_kb(c, parsed.predicate, parsed.item, addRaises))

\* the routes of verify_single_step on a claim whose analysis is a
VerifyAnalysed(step, previous_results, c, addRaises, a) ==
  IF InvalidDeps(step.depends_on, previous_results) # {}
  THEN [result |-> StepVerificationResult(step.step_id, FALSE, "cascading_error",
                     calculate_deduction("cascading_error").points,
                     calculate_deduction("cascading_error").confidence, FALSE, <<>>,
                     CascadeRoot(step.depends_on, previous_results)),
        condition |-> c]
  ELSE IF ~a.parsed.ok
  THEN [result |-> StepVerificationResult(step.step_id, FALSE, "syntax_error",
                     calculate_deduction("syntax_error").points,
                     calculate_deduction("syntax_error").confidence, FALSE, <<>>, 0),
        condition |-> c]
  ELSE IF a.parsed.predicate = sEqual
  THEN VerifyEqual(step, a.low, c, addRaises)
  ELSE IF a.parsed.predicate \notin c.predicates
  THEN VerifyUnknownPredicate(step, a.parsed, c, addRaises)
  ELSE IF check_conclusion_exists(c, a.parsed.predicate, a.parsed.item)
  THEN [result |-> StepVerificationResult(step.step_id, TRUE, "None", 0, 90, FALSE,
                     <<>>, 0),
        condition |-> c]
  ELSE VerifyAssumption(step, a.parsed, c, addRaises)

\* verify_single_step: the verdict and the condition it leaves
verify_single_step(step, previous_results, c, addRaises) ==
  VerifyAnalysed(step, previous_results, c, addRaises, ClaimAnalysis[step.claim_cdl])

\* ------------------------------------------------------ the theorem matcher
\* str.lower() on one character
LowerChar(c) ==
  IF c \in Upper THEN LowerSeq[CHOOSE i \in 1..Len(UpperSeq) : UpperSeq[i] = c] ELSE c

\* name.lower()
LowerName(name) == [i \in 1..Len(name) |-> LowerChar(name[i])]

\* every character outside [a-z0-9] becomes "_"
ReplaceOthers(m) == [i \in 1..Len(m) |-> IF m[i] \in Lower \cup Digit THEN m[i] ELSE "_"]

\* a run of "_" is one "_"
CollapseRuns(m) ==
  PickFrom(m, {i \in 1..Len(m) : m[i] # "_" \/ i = 1 \/ m[i - 1] # "_"}, 1)

\* str.strip('_')
StripUnderscores(s) == TrimTo(s, {i \in 1..Len(s) : s[i] # "_"})

\* re.sub(r'[^a-z0-9]+', '_', name.lower()).strip('_')
normalize_theorem_name(name) ==
  StripUnderscores(CollapseRuns(ReplaceOthers(LowerName(name))))

\* p in s, for strings
IsSubstring(p, s) ==
  \E i \in 0..(Len(s) - Len(p)) : SubSeq(s, i + 1, i + Len(p)) = p

\* the pieces of s between neighbouring cuts
Pieces(s, cuts) ==
  {SubSeq(s, ab[1] + 1, ab[2] - 1) :
     ab \in {x \in cuts \X cuts : x[1] < x[2] /\ ~\E y \in cuts : x[1] < y /\ y < x[2]}}

\* set(s.split('_'))
Keywords(s) == Pieces(s, {0, Len(s) + 1} \cup {i \in 1..Len(s) : s[i] = "_"})

Overlap(s, theorem) == Cardinality(Keywords(s) \cap Keywords(theorem))

\* SequenceMatcher.find_longest_match on a[alo..ahi], b[blo..bhi]: the longest
\* common block <<i, j, size>>, earliest in a, then earliest in b; size 0
\* when there is none
BetterBlock(x, y) ==
  \/ x[3] > y[3]
  \/ x[3] = y[3] /\ x[1] < y[1]
  \/ x[3] = y[3] /\ x[1] = y[1] /\ x[2] <= y[2]

BestBlock(blocks, alo, blo) ==
  IF blocks = {} THEN <<alo, blo, 0>>
  ELSE CHOOSE x \in blocks : \A y \in blocks : BetterBlock(x, y)

LongestMatch(a, alo, ahi, b, blo, bhi) ==
  BestBlock({ijk \in (alo..ahi) \X (blo..bhi) \X (1..(ahi - alo + 1)) :
               /\ ijk[1] + ijk[3] - 1 <= ahi
               /\ ijk[2] + ijk[3] - 1 <= bhi
               /\ SubSeq(a, ijk[1], ijk[1] + ijk[3] - 1)
                    = SubSeq(b, ijk[2], ijk[2] + ijk[3] - 1)},
            alo, blo)

\* the total size of SequenceMatcher.get_matching_blocks
RECURSIVE MatchTotal(_, _, _, _, _, _)

\* the block m, and the matching blocks to its left and to its right
MatchAround(a, alo, ahi, b, blo, bhi, m) ==
  IF m[3] = 0 THEN 0
  ELSE m[3] + MatchTotal(a, alo, m[1] - 1, b, blo, m[2] - 1)
            + MatchTotal(a, m[1] + m[3], ahi, b, m[2] + m[3], bhi)

MatchTotal(a, alo, ahi, b, blo, bhi) ==
  IF alo > ahi \/ blo > bhi THEN 0
  ELSE MatchAround(a, alo, ahi, b, blo, bhi, LongestMatch(a, alo, ahi, b, blo, bhi))

\* SequenceMatcher(None, a, b).ratio() = 2M/T as the pair <<2M, T>>; 1 when T = 0
Ratio(a, b) ==
  IF Len(a) + Len(b) = 0 THEN <<1, 1>>
  ELSE <<2 * MatchTotal(a, 1, Len(a), b, 1, Len(b)), Len(a) + Len(b)>>

RatioGreater(x, y) == x[1] * y[2] > y[1] * x[2]

NoMatch == [found |-> FALSE, name |-> <<>>]

\* the first theorem of the greatest ratio above 0
MostSimilar(ratio) ==
  CHOOSE i \in DOMAIN ratio :
    /\ RatioGreater(ratio[i], <<0, 1>>)
    /\ \A j \in DOMAIN ratio : ~RatioGreater(ratio[j], ratio[i])
    /\ \A j \in DOMAIN ratio : j < i => RatioGreater(ratio[i], ratio[j])

\* tier 4: similarity above 0.6
MatchSimilarity(theorems, ratio) ==
  IF /\ \E i \in DOMAIN ratio : RatioGreater(ratio[i], <<0, 1>>)
     /\ RatioGreater(ratio[MostSimilar(ratio)], <<6, 10>>)
  THEN [found |-> TRUE, name |-> theorems[MostSimilar(ratio)]]
  ELSE NoMatch

\* max(matches, key=...): the first theorem of the greatest overlap
MostKeywords(overlap) ==
  CHOOSE i \in DOMAIN overlap :
    /\ overlap[i] >= 2
    /\ \A j \in DOMAIN overlap : overlap[j] <= overlap[i]
    /\ \A j \in DOMAIN overlap : j < i => overlap[j] < overlap[i]

\* tier 3: at least two keywords in common
MatchKeywords(s, theorems, overlap) ==
  IF \E i \in DOMAIN overlap : overlap[i] >= 2
  THEN [found |-> TRUE, name |-> theorems[MostKeywords(overlap)]]
  ELSE MatchSimilarity(theorems, [i \in 1..Len(theorems) |-> Ratio(s, theorems[i])])

\* tier 2: substring containment in either direction
MatchSubstring(s, theorems, sub) ==
  IF sub # {} THEN [found |-> TRUE, name |-> theorems[SetMin(sub)]]
  ELSE MatchKeywords(s, theorems, [i \in 1..Len(theorems) |-> Overlap(s, theorems[i])])

\* mutant: the exact tier is skipped
MatchNormalized_NoExact(s, theorems) ==
  MatchSubstring(s, theorems,
                 {i \in 1..Len(theorems) : IsSubstring(s, theorems[i])
                                           \/ IsSubstring(theorems[i], s)})

\* tier 1: the normalised name s is a theorem
MatchNormalized(s, theorems) ==
  IF \E i \in 1..Len(theorems) : theorems[i] = s THEN [found |-> TRUE, name |-> s]
  ELSE MatchSubstring(s, theorems,
                      {i \in 1..Len(theorems) : IsSubstring(s, theorems[i])
                                                \/ IsSubstring(theorems[i], s)})

\* fuzzy_match_theorem: [found, name]; found = FALSE is None
fuzzy_match_theorem(student_name, available_theorems) ==
  IF student_name = <<>> THEN NoMatch
  ELSE MatchNormalized(normalize_theorem_name(student_name), available_theorems)

\* -------------------------------------------------- snapshot and rollback
\* snapshot_solver_state: copy.deepcopy of the condition
snapshot_solver_state(c) == c

\* mutant: the restore is skipped
restore_solver_state_Skipped(live, snapshot) == live

\* restore_solver_state: the live condition becomes the snapshot's
restore_solver_state(live, snapshot) == snapshot

\* extract_theorem_parameters: the flattened item, None (<<>>) when empty
extract_theorem_parameters(claim_item) == claim_item

\* solver.apply_theorem on condition c; the engine's outcome is
\* update = [raises, added]: it raises, or adds the facts of added (no update
\* when added is empty)
apply_theorem(c, update) ==
  [c EXCEPT !.facts = c.facts \cup update.added,
            !.predicates = c.predicates \cup {f[1] : f \in update.added}]

\* mutant: every failure of a theorem application is reported untyped
TheoremResult_Untyped(is_valid, error_type, matched) ==
  [is_valid |-> is_valid, error_type |-> IF is_valid THEN error_type ELSE "error",
   matched_theorem |-> IF is_valid THEN matched.name ELSE <<>>]

\* the dict returned by verify_theorem_application
TheoremResult(is_valid, error_type, matched) ==
  [is_valid |-> is_valid, error_type |-> error_type,
   matched_theorem |-> IF is_valid THEN matched.name ELSE <<>>]

\* the application of the matched theorem: applied is the condition after
\* apply_theorem, saved_state the snapshot taken before it
ApplyMatched(matched, claim_predicate, claim_item, c, update, applied, saved_state) ==
  IF ~matched.found
  THEN [result |-> TheoremResult(FALSE, "unknown_theorem", matched), condition |-> c]
  ELSE IF update.raises
  THEN [result |-> TheoremResult(FALSE, "formalgeo_error", matched),
        condition |-> restore_solver_state(applied, saved_state)]
  ELSE IF update.added = {}
  THEN [result |-> TheoremResult(FALSE, "invalid_theorem", matched),
        condition |-> restore_solver_state(applied, saved_state)]
  ELSE IF check_conclusion_exists(applied, claim_predicate, claim_item)
  THEN [result |-> TheoremResult(TRUE, "None", matched), condition |-> applied]
  ELSE [result |-> TheoremResult(FALSE, "wrong_conclusion", matched),
        condition |-> restore_solver_state(applied, saved_state)]

\* verify_theorem_application: the returned dict and the condition it leaves
verify_theorem_application(theorem_name, claim_predicate, claim_item, available_theorems, c, update) ==
  ApplyMatched(fuzzy_match_theorem(theorem_name, available_theorems), claim_predicate,
               claim_item, c, update, apply_theorem(c, update), snapshot_solver_state(c))

\* ------------------------------------------------------------- the report
\* mutant: the deduction of a step is labelled as the final one
to_deduction_Final(r) ==
  [deducted_points |-> r.points_deducted,
   deduction_confidence_score |-> r.confidence,
   deduction_step |-> [kind |-> "final", id |-> 0],
   error_type |-> r.error_type]

\* StepVerificationResult.to_deduction, for a result with points_deducted # 0
to_deduction(r) ==
  [deducted_points |-> r.points_deducted,
   deduction_confidence_score |-> r.confidence,
   deduction_step |-> [kind |-> "step", id |-> r.step_id],
   error_type |-> r.error_type]

\* mutant: the feedback entry is labelled with the root cause's id
to_feedback_RootId(r) ==
  [step_id |-> r.root_cause_step, is_valid |-> r.is_valid,
   error_type |-> IF r.is_valid THEN "None" ELSE r.error_type,
   root_cause |-> IF r.is_valid THEN 0 ELSE r.root_cause_step,
   confidence |-> r.confidence]

\* StepVerificationResult.to_feedback; root_cause 0 is an absent key
to_feedback(r) ==
  [step_id |-> r.step_id, is_valid |-> r.is_valid,
   error_type |-> IF r.is_valid THEN "None" ELSE r.error_type,
   root_cause |-> IF r.is_valid THEN 0 ELSE r.root_cause_step,
   confidence |-> r.confidence]

RECURSIVE SumPoints(_)
SumPoints(results) ==
  IF results = <<>> THEN 0 ELSE Head(results).points_deducted + SumPoints(Tail(results))

RECURSIVE SumConfidence(_)
SumConfidence(results) ==
  IF results = <<>> THEN 0 ELSE Head(results).confidence + SumConfidence(Tail(results))

RECURSIVE StepDeductions(_)
StepDeductions(results) ==
  IF results = <<>> THEN <<>>
  ELSE (IF Head(results).points_deducted # 0 THEN <<to_deduction(Head(results))>> ELSE <<>>)
         \o StepDeductions(Tail(results))

\* mutant: the score is not clamped at 0
Max_Unclamped(a, b) == b

Max(a, b) == IF a >= b THEN a ELSE b

\* mutant: an unproved goal costs nothing and names no missing step
identify_missing_steps_Free(c, problem_goal) ==
  [goal_reached |-> problem_goal \in c.facts, missing_steps |-> <<>>, deduction_points |-> 0]

\* identify_missing_steps: check_goal holds when the goal is a fact of the KB
identify_missing_steps(c, problem_goal) ==
  IF problem_goal \in c.facts
  THEN [goal_reached |-> TRUE, missing_steps |-> <<>>, deduction_points |-> 0]
  ELSE [goal_reached |-> FALSE,
        missing_steps |-> <<"Additional steps needed to reach goal">>,
        deduction_points |-> 20]

ConfidenceThreshold == 50

FinalConfidence == 85

\* the deductions kept by the confidence filter
FilterDeductions(deductions) ==
  SelectSeq(deductions, LAMBDA d : d.deduction_confidence_score >= ConfidenceThreshold)

\* calculate_overall_confidence: the mean as the pair <<sum, count>>; 0.0 as
\* <<0, 1>> for no steps
calculate_overall_confidence(results) ==
  IF results = <<>> THEN <<0, 1>> ELSE <<SumConfidence(results), Len(results)>>

\* the deductions compiled before the confidence filter: one per result
\* with points, then the goal-not-reached deduction
CompiledDeductions(results, missing) ==
  StepDeductions(results)
    \o (IF ~missing.goal_reached /\ missing.deduction_points > 0
        THEN <<[deducted_points |-> missing.deduction_points,
                deduction_confidence_score |-> FinalConfidence,
                deduction_step |-> [kind |-> "final", id |-> 0],
                error_type |-> "None"]>>
        ELSE <<>>)

\* the report compiled from the step results and the goal analysis
CompileReport(results, missing) ==
  [total_points |->
     Max(0, 100 - (SumPoints(results)
                     + (IF ~missing.goal_reached THEN missing.deduction_points ELSE 0))),
   deductions |-> FilterDeductions(CompiledDeductions(results, missing)),
   step_feedback |-> [i \in 1..Len(results) |-> to_feedback(results[i])],
   missing_steps |-> missing.missing_steps,
   goal_reached |-> missing.goal_reached,
   confidence |-> calculate_overall_confidence(results)]

\* the GradingReport built after the step loop
GradingReport(results, c, problem_goal) ==
  CompileReport(results, identify_missing_steps(c, problem_goal))

\* mutant: the failed initialization keeps the full score
InitFailureReport_FullScore ==
  [total_points |-> 100, deductions |-> <<>>, step_feedback |-> <<>>, missing_steps |-> <<>>,
   goal_reached |-> FALSE, confidence |-> <<0, 1>>]

\* the report of a failed initialization
InitFailureReport ==
  [total_points |-> 0,
   deductions |-> <<[deducted_points |-> 100,
                     deduction_confidence_score |-> 100,
                     deduction_step |-> [kind |-> "initialization", id |-> 0],
                     error_type |-> "None"]>>,
   step_feedback |-> <<>>,
   missing_steps |-> <<>>,
   goal_reached |-> FALSE,
   confidence |-> <<0, 1>>]

\* ------------------------------------------------------------ the inputs
tSum == <<"s", "u", "m">>
tTriSum == <<"t", "r", "i", "_", "s", "u", "m">>
tMagic == <<"m", "a", "g", "i", "c">>

\* theorem_gdl.keys(), in order
TheoremGdl == <<tTriSum, tSum>>

\* the predicate families of predicate_gdl and the givens loaded by
\* load_problem
Vocabulary == {sLine, sAngle, sEquation}
fLineAB == <<sLine, <<"A", "B">>>>
fLineBC == <<sLine, <<"B", "C">>>>
fAngleABC == <<sAngle, <<"A", "B", "C">>>>
fAngleCBA == <<sAngle, <<"C", "B", "A">>>>
Givens == {fLineAB}
InitialCondition == NewCondition(Vocabulary, Givens)
EmptyCondition == NewCondition({}, {})

\* goal_cdl of the problem: a given, or a fact the steps may add
GoalPool == {fLineAB, fAngleCBA}

\* the facts the theorem engine may derive
EngineFacts == {fLineBC, fAngleABC}

\* the depends_on lists over the ids 1..n: at most two distinct entries
DepLists(n) ==
  {<<>>} \cup {<<a>> : a \in 1..n}
         \cup {<<ab[1], ab[2]>> : ab \in {x \in (1..n) \X (1..n) : x[1] # x[2]}}

\* the step lists a grade call draws from: every route of the verifier with
\* positional ids; free unique ids with dependencies; long lists for the
\* score; steps that name a theorem
RouteInputs ==
  [claims |-> ClaimPool,
   names |-> {<<>>}, free_ids |-> FALSE, deps |-> {<<>>, <<1>>},
   add_raises |-> BOOLEAN, goals |-> GoalPool, max_steps |-> MaxRouteSteps]

DepInputs ==
  [claims |-> {cLineAB, cBad},
   names |-> {<<>>}, free_ids |-> TRUE, deps |-> DepLists(MaxDepSteps),
   add_raises |-> {FALSE}, goals |-> {fLineAB}, max_steps |-> MaxDepSteps]

\* the depends_on lists of a chain of n steps: none, one id, or two
\* neighbouring ids in either order
ChainDeps(n) ==
  {<<>>} \cup {<<a>> : a \in 1..n}
         \cup {<<a, a + 1>> : a \in 1..(n - 1)} \cup {<<a + 1, a>> : a \in 1..(n - 1)}

\* step lists with unique ids and dependencies between the steps
ChainInputs ==
  [claims |-> {cLineAB, cBad},
   names |-> {<<>>}, free_ids |-> TRUE, deps |-> ChainDeps(MaxChainSteps),
   add_raises |-> {FALSE}, goals |-> {fLineAB}, max_steps |-> MaxChainSteps]

\* Claim.claim_id of the claim at position k.  A claim_id is a str and a
\* step_id an int counted from 1: the two never compare equal, so the strings
\* are numbered from ClaimIdBase, which no step_id reaches.
ClaimIdBase == 100
ClaimIdOf(k) == ClaimIdBase + k

\* the depends_on of the claim at position k: nothing (choice 0), or the
\* claim_id of one other claim, the choice-th of the others
ClaimDeps(k, choice) ==
  IF choice = 0 THEN <<>> ELSE <<ClaimIdOf(IF choice < k THEN choice ELSE choice + 1)>>

\* the lists of m claims, each with its claim_id, its depends_on and the
\* theorem_name of its evidence
ClaimLists(m) ==
  {[k \in 1..m |-> [claim_id |-> ClaimIdOf(k),
                    depends_on |-> ClaimDeps(k, choice[k]),
                    theorem_name |-> <<>>]] : choice \in [1..m -> 0..(m - 1)]}

\* gdl_payload["claim_cdl"]: lists of at most n claim strings
ClaimCdlLists(n) == UNION {[1..k -> {cLineAB, cBad}] : k \in 0..n}

ScoreInputs ==
  [claims |-> {cLineAB, cAngleABC, cBad},
   names |-> {<<>>}, free_ids |-> FALSE, deps |-> {<<>>},
   add_raises |-> BOOLEAN, goals |-> GoalPool, max_steps |-> MaxScoreSteps]

\* steps that name a theorem: one the matcher finds, one it does not
NamedInputs ==
  [claims |-> {cAngleABC, cEqualXY, cEqualX},
   names |-> {tMagic, tSum}, free_ids |-> FALSE, deps |-> {<<>>},
   add_raises |-> BOOLEAN, goals |-> GoalPool, max_steps |-> MaxNamedSteps]

Profiles == {RouteInputs, DepInputs, ScoreInputs, NamedInputs}

NoStep == [step_id |-> 0, claim_cdl |-> <<>>, theorem_name |-> <<>>, depends_on |-> <<>>]
NoThmResult == [is_valid |-> FALSE, error_type |-> "None", matched_theorem |-> <<>>]
NoReport ==
  [total_points |-> 0, deductions |-> <<>>, step_feedback |-> <<>>, missing_steps |-> <<>>,
   goal_reached |-> FALSE, confidence |-> <<0, 1>>]

\* ------------------------------------- the construction of the problem CDL
\* GeometryFormalizerAgent._build_problem_cdl, the loop over construction_cdl
sShapeOpen == <<"S", "h", "a", "p", "e", "(">>
sCollinearOpen == <<"C", "o", "l", "l", "i", "n", "e", "a", "r", "(">>
sCocircularOpen == <<"C", "o", "c", "i", "r", "c", "u", "l", "a", "r", "(">>

EndsWith(s, c) == Len(s) > 0 /\ s[Len(s)] = c

\* text[len(open):-1]
Inner(text, open) ==
  IF Len(text) - 1 >= Len(open) + 1 THEN SubSeq(text, Len(open) + 1, Len(text) - 1) ELSE <<>>

\* s.replace(c, "") for every c of cs
Remove(s, cs) == SelectSeq(s, LAMBDA c : c \notin cs)

FirstIndexOf(s, c) == SetMin({i \in 1..Len(s) : s[i] = c})

\* s.split(c)
RECURSIVE SplitPlain(_, _)
SplitPlain(s, c) ==
  IF ~HasChar(s, c) THEN <<s>>
  ELSE <<SubSeq(s, 1, FirstIndexOf(s, c) - 1)>>
         \o SplitPlain(SubSeq(s, FirstIndexOf(s, c) + 1, Len(s)), c)

\* ",".join(parts)
RECURSIVE JoinComma(_)
JoinComma(parts) ==
  IF parts = <<>> THEN <<>>
  ELSE IF Len(parts) = 1 THEN parts[1]
  ELSE parts[1] \o <<",">> \o JoinComma(Tail(parts))

\* [p.strip() for p in pieces if p.strip()]
StrippedParts(pieces) ==
  SelectSeq([k \in 1..Len(pieces) |-> Strip(pieces[k])], LAMBDA p : p # <<>>)

\* [p for p in pieces if p]
NonEmptyParts(pieces) == SelectSeq(pieces, LAMBDA p : p # <<>>)

Wrapped(open, inner) == open \o inner \o <<")">>

\* one pass of the loop body is a record [skip, text, seen]: skip is the
\* `continue`, text the entry as rewritten so far, seen is seen_shapes
CollinearInner(r, inner) ==
  IF Len(inner) >= 3 THEN [r EXCEPT !.text = Wrapped(sCollinearOpen, inner)]
  ELSE [r EXCEPT !.skip = TRUE]

CollinearStage(r) ==
  IF StartsWith(r.text, sCollinearOpen) /\ EndsWith(r.text, ")")
  THEN CollinearInner(r, Remove(Inner(r.text, sCollinearOpen), {",", " "}))
  ELSE r

CocircularParts(r, parts) ==
  IF Len(parts) >= 2 THEN [r EXCEPT !.text = Wrapped(sCocircularOpen, JoinComma(parts))]
  ELSE [r EXCEPT !.skip = TRUE]

CocircularInner(r, inner) ==
  IF HasChar(inner, ",") THEN CocircularParts(r, NonEmptyParts(SplitPlain(inner, ",")))
  ELSE IF Len(inner) >= 2 THEN [r EXCEPT !.text = Wrapped(sCocircularOpen, inner)]
  ELSE [r EXCEPT !.skip = TRUE]

CocircularStage(r) ==
  IF ~r.skip /\ StartsWith(r.text, sCocircularOpen) /\ EndsWith(r.text, ")")
  THEN CocircularInner(r, Remove(Inner(r.text, sCocircularOpen), {" "}))
  ELSE r

CocircularLength(r) ==
  IF ~r.skip /\ StartsWith(r.text, sCocircularOpen)
       /\ Len(Remove(Inner(r.text, sCocircularOpen), {",", " "})) < 2
  THEN [r EXCEPT !.skip = TRUE]
  ELSE r

\* parts[i][1] == parts[(i + 1) % len(parts)][0] for every i
Closed(parts) ==
  \A i \in 1..Len(parts) : parts[i][2] = parts[(i % Len(parts)) + 1][1]

\* tuple(sorted((a, b))) of every segment: two sorted pairs are equal exactly
\* when the two-element collections are, so an edge is the set of its ends
Edges(parts) == [i \in 1..Len(parts) |-> {parts[i][1], parts[i][2]}]

\* tuple(sorted(edges)), compared only between lists of distinct edges
ShapeKey(parts) == {Edges(parts)[i] : i \in 1..Len(parts)}

ShapeAdmitted(r, parts) ==
  /\ Len(parts) \in {3, 4}
  /\ \A i \in 1..Len(parts) : Len(parts[i]) = 2
  /\ Closed(parts)
  /\ Cardinality(ShapeKey(parts)) = Len(parts)
  /\ ShapeKey(parts) \notin r.seen

ShapeParts(r, parts) ==
  IF ShapeAdmitted(r, parts)
  THEN [r EXCEPT !.text = Wrapped(sShapeOpen, JoinComma(parts)),
                 !.seen = r.seen \cup {ShapeKey(parts)}]
  ELSE [r EXCEPT !.skip = TRUE]

ShapeStage(r) ==
  IF ~r.skip /\ StartsWith(r.text, sShapeOpen) /\ EndsWith(r.text, ")")
  THEN ShapeParts(r, StrippedParts(SplitPlain(Inner(r.text, sShapeOpen), ",")))
  ELSE r

\* the final test of the loop body: the entry is appended
Appended(r) ==
  /\ ~r.skip
  /\ \/ StartsWith(r.text, sShapeOpen)
     \/ StartsWith(r.text, sCollinearOpen)
     \/ StartsWith(r.text, sCocircularOpen)

\* the loop body on the raw entry cdl with seen_shapes = seen
BuildEntry(cdl, seen) ==
  ShapeStage(CocircularLength(CocircularStage(CollinearStage(
    [skip |-> FALSE, text |-> Strip(cdl), seen |-> seen]))))

\* the raw construction_cdl entries of a formalizer response
rTriangle == <<"S", "h", "a", "p", "e", "(", "A", "B", ",", "B", "C", ",", "C", "A", ")">>
rRotated == <<"S", "h", "a", "p", "e", "(", "B", "C", ",", "C", "A", ",", "A", "B", ")">>
rOpenChain == <<"S", "h", "a", "p", "e", "(", "A", "B", ",", "C", "D", ",", "D", "A", ")">>
rBackForth == <<"S", "h", "a", "p", "e", "(", "A", "B", ",", "B", "A", ",", "A", "B", ",", "B", "A", ")">>
rLongSegment == <<"S", "h", "a", "p", "e", "(", "A", "B", "C", ",", "C", "A", ",", "A", "B", ")">>
rTwoSegments == <<"S", "h", "a", "p", "e", "(", "A", "B", ",", "B", "A", ")">>
rUnclosed == <<"S", "h", "a", "p", "e", "(", "A", "B", ",", "C", "D", ",", "E", "F">>
rCollinear == <<"C", "o", "l", "l", "i", "n", "e", "a", "r", "(", "A", ",", "B", ",", "C", ")">>
rShortCollinear == <<"C", "o", "l", "l", "i", "n", "e", "a", "r", "(", "A", "B", ")">>
rCocircular == <<"C", "o", "c", "i", "r", "c", "u", "l", "a", "r", "(", "O", ",", "A", "B", ")">>
rShortCocircular == <<"C", "o", "c", "i", "r", "c", "u", "l", "a", "r", "(", "O", ")">>
rLine == <<"L", "i", "n", "e", "(", "A", "B", ")">>

RawEntries ==
  {rTriangle, rRotated, rOpenChain, rBackForth,
   rLongSegment, rTwoSegments, rUnclosed, rCollinear,
   rShortCollinear, rCocircular, rShortCocircular, rLine}

\* the lists of at most n raw entries
RawLists(n) == UNION {[1..k -> RawEntries] : k \in 0..n}

\* student theorem names, as written
nTriSumSpaced == <<"T", "r", "i", " ", "S", "u", "m">>
nTrysum == <<"t", "r", "y", "s", "u", "m">>
nSumTri == <<"s", "u", "m", "_", "t", "r", "i">>
nMagicBang == <<"m", "a", "g", "i", "c", "!">>
nBangs == <<"!", "!">>
nOther == <<"x", "y", "z">>
StudentNames == {<<>>, tSum, nTriSumSpaced, nTrysum, nSumTri, nMagicBang, nBangs, nOther}

\* theorem_gdl.keys(): lists of distinct theorem names, at most n long
KnownTheorems == {tTriSum, tSum, tMagic}
TheoremLists(n) ==
  {l \in UNION {[1..k -> KnownTheorems] : k \in 0..n} :
     \A i, j \in DOMAIN l : i # j => l[i] # l[j]}

\* ------------------------------------------------------------- the state
VARIABLES
  available,     \* FormalGeoStepGrader.available
  solver,        \* "None", "failed" (Interactor built, problem not loaded), "loaded"
  condition,     \* solver.problem.condition
  goal,          \* solver.problem.goal
  pc,            \* "start", "ready", "loop", "goal", "done"
  cfg,           \* the input sets of the running grade call
  num_steps,     \* len(student_steps) of the running grade call
  step,          \* the step verified last
  step_ids,      \* the step_id of every student step read so far, in input order
  step_results,  \* verify_step_sequence's step_results
  kb_before,     \* the condition before the last step or theorem application
  thm_result,    \* the dict returned by the last verify_theorem_application
  thm_calls,     \* the number of direct verify_theorem_application calls
  report         \* the GradingReport returned by grade_geometry_solution

\* _build_problem_cdl
VARIABLES
  construction_cdl_raw,  \* resp["construction_cdl"]
  cdl_pos,               \* the number of raw entries the loop has read
  seen_shapes,           \* seen_shapes
  construction_cdl       \* construction_cdl, the entries admitted so far

\* fuzzy_match_theorem
VARIABLES
  student_name,         \* student_name
  available_theorems,   \* list(self.theorem_gdl.keys())
  matched,              \* the value returned, NoMatch for None
  returned              \* fuzzy_match_theorem has returned

\* snapshot_solver_state and restore_solver_state, with the Condition objects
\* they hand around
VARIABLES
  heap,          \* the Condition objects created so far, by object number
  live_ref,      \* the object solver.problem.condition refers to
  snapshot_ref,  \* the object snapshot["condition"] refers to, 0 before the snapshot
  snapshot_kb,   \* the content of the live condition when the snapshot was taken
  calls          \* the calls made so far, in order

\* verify_step_sequence on a list of dependent steps
VARIABLES
  step_deps      \* the depends_on of every student step read so far, in input order

\* MathVerifier._grade_with_formalgeo
VARIABLES
  claim_cdl_list,  \* gdl_payload["claim_cdl"]
  claims,          \* the claims of the student
  student_steps    \* the steps built from them

grader_vars ==
  <<available, solver, condition, goal, pc, cfg, num_steps, step, step_ids, step_results,
    kb_before, thm_result, thm_calls, report>>

formalizer_vars == <<construction_cdl_raw, cdl_pos, seen_shapes, construction_cdl>>

matcher_vars == <<student_name, available_theorems, matched, returned>>

snapshot_vars == <<heap, live_ref, snapshot_ref, snapshot_kb, calls>>

chain_vars == <<step_deps>>

pipeline_vars == <<claim_cdl_list, claims, student_steps>>

\* the variables outside the grader
other_vars == <<formalizer_vars, matcher_vars, snapshot_vars, chain_vars, pipeline_vars>>

vars == <<grader_vars, other_vars>>

\* no formalizer response is being processed
FormalizerIdle ==
  /\ construction_cdl_raw = <<>>
  /\ cdl_pos = 0
  /\ seen_shapes = {}
  /\ construction_cdl = <<>>

\* no theorem name is being matched
MatcherIdle ==
  /\ student_name = <<>>
  /\ available_theorems = <<>>
  /\ matched = NoMatch
  /\ returned = FALSE

\* no snapshot is being handled
SnapshotIdle ==
  /\ heap = <<>>
  /\ live_ref = 0
  /\ snapshot_ref = 0
  /\ snapshot_kb = EmptyCondition
  /\ calls = <<>>

\* no list of dependent steps is being read
ChainIdle == step_deps = <<>>

\* no list of claims is being graded
PipelineIdle ==
  /\ claim_cdl_list = <<>>
  /\ claims = <<>>
  /\ student_steps = <<>>

\* __init__: the import of the theorem engine succeeds or not
GraderInit ==
  /\ available \in BOOLEAN
  /\ solver = "None"
  /\ condition = EmptyCondition
  /\ goal = fLineAB
  /\ pc = "start"
  /\ cfg = RouteInputs
  /\ num_steps = 0
  /\ step = NoStep
  /\ step_ids = <<>>
  /\ step_results = <<>>
  /\ kb_before = EmptyCondition
  /\ thm_result = NoThmResult
  /\ thm_calls = 0
  /\ report = NoReport

Init ==
  GraderInit /\ FormalizerIdle /\ MatcherIdle /\ SnapshotIdle /\ ChainIdle /\ PipelineIdle

\* mutant: the availability of the theorem engine is not checked
initialize_problem_Unchecked(loads, problem_goal) ==
  IF ~loads
  THEN [success |-> FALSE, solver |-> "failed", condition |-> EmptyCondition, goal |-> goal]
  ELSE [success |-> TRUE, solver |-> "loaded", condition |-> InitialCondition,
        goal |-> problem_goal]

\* initialize_problem: [success, solver, condition, goal]; loads = FALSE is
\* load_problem raising
initialize_problem(loads, problem_goal) ==
  IF ~available
  THEN [success |-> FALSE, solver |-> solver, condition |-> condition, goal |-> goal]
  ELSE IF ~loads
  THEN [success |-> FALSE, solver |-> "failed", condition |-> EmptyCondition, goal |-> goal]
  ELSE [success |-> TRUE, solver |-> "loaded", condition |-> InitialCondition,
        goal |-> problem_goal]

\* a direct call of initialize_problem
InitializeProblem ==
  /\ pc \in {"start", "ready"}
  /\ \E loads \in BOOLEAN, g \in GoalPool :
       \E r \in {initialize_problem(loads, g)} :
          /\ solver' = r.solver
          /\ condition' = r.condition
          /\ goal' = r.goal
          /\ pc' = IF r.success THEN "ready" ELSE "start"
  /\ kb_before' = EmptyCondition
  /\ thm_result' = NoThmResult
  /\ UNCHANGED <<available, cfg, num_steps, step, step_ids, step_results, thm_calls, report>>
  /\ UNCHANGED other_vars

\* a direct call of verify_theorem_application on a loaded problem
VerifyTheoremApplication ==
  /\ pc = "ready"
  /\ solver = "loaded"
  /\ thm_calls < MaxThmCalls
  /\ \E theorem_name \in {<<>>, tSum, tMagic}, claim \in {fAngleABC, fLineAB},
        raises \in BOOLEAN, added \in SUBSET (EngineFacts \ condition.facts) :
       \E r \in {verify_theorem_application(theorem_name, claim[1], claim[2], TheoremGdl,
                                              condition,
                                              [raises |-> raises, added |-> added])} :
          /\ thm_result' = r.result
          /\ condition' = r.condition
  /\ kb_before' = condition
  /\ thm_calls' = thm_calls + 1
  /\ UNCHANGED <<available, solver, goal, pc, cfg, num_steps, step, step_ids, step_results,
                 report>>
  /\ UNCHANGED other_vars

\* grade_geometry_solution up to the step loop
GradeStart ==
  /\ pc \in {"start", "ready"}
  /\ \E loads \in BOOLEAN, inputs \in Profiles :
     \E g \in inputs.goals, n \in 0..inputs.max_steps :
       \E r \in {initialize_problem(loads, g)} :
          /\ solver' = r.solver
          /\ condition' = r.condition
          /\ goal' = r.goal
          /\ cfg' = inputs
          /\ num_steps' = n
          /\ IF r.success
             THEN /\ pc' = IF n = 0 THEN "goal" ELSE "loop"
                  /\ report' = report
             ELSE /\ pc' = "done"
                  /\ report' = InitFailureReport
  /\ step' = NoStep
  /\ step_ids' = <<>>
  /\ step_results' = <<>>
  /\ kb_before' = EmptyCondition
  /\ thm_result' = NoThmResult
  /\ thm_calls' = 0
  /\ UNCHANGED available
  /\ UNCHANGED other_vars

\* the step ids a list may give its next step: its position, or any id not
\* used yet (step_id is unique per solution)
NextIds ==
  IF cfg.free_ids
  THEN (1..cfg.max_steps) \ {step_ids[i] : i \in 1..Len(step_ids)}
  ELSE {Len(step_results) + 1}

\* one iteration of the loop of verify_step_sequence
VerifyStep ==
  /\ pc = "loop"
  /\ \E id \in NextIds, claim \in cfg.claims, name \in cfg.names, deps \in cfg.deps,
        addRaises \in cfg.add_raises :
       \E s \in {[step_id |-> id, claim_cdl |-> claim, theorem_name |-> name,
                  depends_on |-> deps]} :
       \E r \in {verify_single_step(s, step_results, condition, addRaises)} :
          /\ step' = s
          /\ step_ids' = Append(step_ids, id)
          /\ step_results' = Append(step_results, r.result)
          /\ condition' = r.condition
          /\ pc' = IF r.result.error_type = "global_misalignment"
                      \/ Len(step_results) + 1 = num_steps
                   THEN "goal" ELSE "loop"
  /\ kb_before' = condition
  /\ UNCHANGED <<available, solver, goal, cfg, num_steps, thm_result, thm_calls, report>>
  /\ UNCHANGED other_vars

\* grade_geometry_solution after the loop: goal check, score, report
GradeFinish ==
  /\ pc = "goal"
  /\ report' = GradingReport(step_results, condition, goal)
  /\ pc' = "done"
  /\ UNCHANGED <<available, solver, condition, goal, cfg, num_steps, step, step_ids,
                 step_results, kb_before, thm_result, thm_calls>>
  /\ UNCHANGED other_vars

Next ==
  \/ InitializeProblem
  \/ VerifyTheoremApplication
  \/ GradeStart
  \/ VerifyStep
  \/ GradeFinish

Spec == Init /\ [][Next]_vars

\* the grade call runs to its end once started
FairSpec == Spec /\ WF_vars(VerifyStep) /\ WF_vars(GradeFinish)

\* ------------------------------------------- _build_problem_cdl on its own
\* a formalizer response with a list of raw construction entries arrives
FormalizerInit ==
  /\ GraderInit
  /\ available
  /\ construction_cdl_raw \in RawLists(MaxRawEntries)
  /\ cdl_pos = 0
  /\ seen_shapes = {}
  /\ construction_cdl = <<>>
  /\ MatcherIdle
  /\ SnapshotIdle
  /\ ChainIdle
  /\ PipelineIdle

\* one iteration of the loop over construction_cdl_raw
BuildProblemCdl ==
  /\ cdl_pos < Len(construction_cdl_raw)
  /\ \E r \in {BuildEntry(construction_cdl_raw[cdl_pos + 1], seen_shapes)} :
       /\ seen_shapes' = r.seen
       /\ construction_cdl' =
            IF Appended(r) THEN Append(construction_cdl, r.text) ELSE construction_cdl
  /\ cdl_pos' = cdl_pos + 1
  /\ UNCHANGED <<construction_cdl_raw, grader_vars, matcher_vars, snapshot_vars, chain_vars,
                 pipeline_vars>>

FormalizerNext == BuildProblemCdl

FormalizerSpec == FormalizerInit /\ [][FormalizerNext]_vars

\* ------------------------------------------- fuzzy_match_theorem on its own
\* a student theorem name meets a theorem library
MatcherInit ==
  /\ GraderInit
  /\ available
  /\ FormalizerIdle
  /\ student_name \in StudentNames
  /\ available_theorems \in TheoremLists(MaxTheorems)
  /\ matched = NoMatch
  /\ returned = FALSE
  /\ SnapshotIdle
  /\ ChainIdle
  /\ PipelineIdle

\* the call fuzzy_match_theorem(student_name)
FuzzyMatchTheorem ==
  /\ ~returned
  /\ matched' = fuzzy_match_theorem(student_name, available_theorems)
  /\ returned' = TRUE
  /\ UNCHANGED <<student_name, available_theorems, grader_vars, formalizer_vars,
                 snapshot_vars, chain_vars, pipeline_vars>>

MatcherNext == FuzzyMatchTheorem

MatcherSpec == MatcherInit /\ [][MatcherNext]_vars

\* ------------------------------ snapshots and restores of a loaded solver
\* the facts added to the live condition
AddedFacts == {fLineBC, fAngleABC}

\* a solver with the problem loaded: one Condition object, the live one
SnapshotInit ==
  /\ GraderInit
  /\ available
  /\ FormalizerIdle
  /\ MatcherIdle
  /\ heap = <<InitialCondition>>
  /\ live_ref = 1
  /\ snapshot_ref = 0
  /\ snapshot_kb = EmptyCondition
  /\ calls = <<>>
  /\ ChainIdle
  /\ PipelineIdle

\* snapshot_solver_state: copy.deepcopy makes a new Condition object with the
\* content of the live one
SnapshotSolverState ==
  /\ Len(calls) < MaxSnapshotCalls
  /\ snapshot_ref = 0
  /\ heap' = Append(heap, heap[live_ref])
  /\ snapshot_ref' = Len(heap) + 1
  /\ snapshot_kb' = heap[live_ref]
  /\ calls' = Append(calls, "snapshot")
  /\ UNCHANGED <<live_ref, grader_vars, formalizer_vars, matcher_vars, chain_vars,
                 pipeline_vars>>

\* _try_add_predicate_to_kb: a fact is added to the object the solver refers to
AddToLiveKb ==
  /\ Len(calls) < MaxSnapshotCalls
  /\ \E f \in AddedFacts :
       heap' = [heap EXCEPT ![live_ref] =
                  _try_add_predicate_to_kb(heap[live_ref], f[1], f[2], FALSE).condition]
  /\ calls' = Append(calls, "add")
  /\ UNCHANGED <<live_ref, snapshot_ref, snapshot_kb, grader_vars, formalizer_vars,
                 matcher_vars, chain_vars, pipeline_vars>>

\* restore_solver_state(snapshot): the solver refers to the snapshot's object
RestoreSolverState ==
  /\ Len(calls) < MaxSnapshotCalls
  /\ snapshot_ref # 0
  /\ live_ref' = snapshot_ref
  /\ calls' = Append(calls, "restore")
  /\ UNCHANGED <<heap, snapshot_ref, snapshot_kb, grader_vars, formalizer_vars,
                 matcher_vars, chain_vars, pipeline_vars>>

SnapshotNext == SnapshotSolverState \/ AddToLiveKb \/ RestoreSolverState

SnapshotSpec == SnapshotInit /\ [][SnapshotNext]_vars

\* ------------------------- verify_step_sequence on lists of dependent steps
\* the problem is loaded and the loop over a list of 1 to MaxChainSteps
\* steps is about to start
ChainInit ==
  /\ available = TRUE
  /\ solver = "loaded"
  /\ condition = InitialCondition
  /\ goal = fLineAB
  /\ pc = "loop"
  /\ cfg = ChainInputs
  /\ num_steps \in 1..MaxChainSteps
  /\ step = NoStep
  /\ step_ids = <<>>
  /\ step_results = <<>>
  /\ kb_before = EmptyCondition
  /\ thm_result = NoThmResult
  /\ thm_calls = 0
  /\ report = NoReport
  /\ FormalizerIdle
  /\ MatcherIdle
  /\ SnapshotIdle
  /\ step_deps = <<>>
  /\ PipelineIdle

\* the step ids of a list: its steps are numbered upwards from 1, or
\* downwards from the number of steps
ChainIds ==
  IF step_ids = <<>> THEN {1, num_steps}
  ELSE IF step_ids[1] = 1 THEN {Len(step_ids) + 1} ELSE {num_steps - Len(step_ids)}

\* one iteration of the loop of verify_step_sequence
VerifyChainStep ==
  /\ pc = "loop"
  /\ \E id \in ChainIds, claim \in cfg.claims, deps \in cfg.deps :
       \E s \in {[step_id |-> id, claim_cdl |-> claim, theorem_name |-> <<>>,
                  depends_on |-> deps]} :
       \E r \in {verify_single_step(s, step_results, condition, FALSE)} :
          /\ step' = s
          /\ step_ids' = Append(step_ids, id)
          /\ step_deps' = Append(step_deps, deps)
          /\ step_results' = Append(step_results, r.result)
          /\ condition' = r.condition
          /\ pc' = IF r.result.error_type = "global_misalignment"
                      \/ Len(step_results) + 1 = num_steps
                   THEN "goal" ELSE "loop"
  /\ kb_before' = condition
  /\ UNCHANGED <<available, solver, goal, cfg, num_steps, thm_result, thm_calls, report>>
  /\ UNCHANGED <<formalizer_vars, matcher_vars, snapshot_vars, pipeline_vars>>

ChainNext == VerifyChainStep

ChainSpec == ChainInit /\ [][ChainNext]_vars

\* -------------------------------------- grading the claims of the pipeline
\* a list of claim strings and the claims they come from reach
\* _grade_with_formalgeo; the lists may differ in length
PipelineInit ==
  /\ GraderInit
  /\ FormalizerIdle
  /\ MatcherIdle
  /\ SnapshotIdle
  /\ ChainIdle
  /\ claim_cdl_list \in ClaimCdlLists(MaxPipelineClaims)
  /\ claims \in UNION {ClaimLists(m) : m \in 0..MaxPipelineClaims}
  /\ student_steps = <<>>

\* the step built from the claim string at position i (i is the source's
\* i + 1) and the claim at the same position, when there is one
BuildStep(i) ==
  [step_id |-> i,
   claim_cdl |-> claim_cdl_list[i],
   theorem_name |-> IF i <= Len(claims) THEN claims[i].theorem_name ELSE <<>>,
   depends_on |-> IF i <= Len(claims) THEN claims[i].depends_on ELSE <<>>]

\* _grade_with_formalgeo up to the step loop of grade_geometry_solution: the
\* steps are built and the problem is initialized
GradeWithFormalgeo ==
  /\ pc = "start"
  /\ available
  /\ student_steps' = [i \in 1..Len(claim_cdl_list) |-> BuildStep(i)]
  /\ \E loads \in BOOLEAN :
       \E r \in {initialize_problem(loads, fLineAB)} :
          /\ solver' = r.solver
          /\ condition' = r.condition
          /\ goal' = r.goal
          /\ IF r.success
             THEN /\ pc' = IF Len(claim_cdl_list) = 0 THEN "goal" ELSE "loop"
                  /\ report' = report
             ELSE /\ pc' = "done"
                  /\ report' = InitFailureReport
  /\ num_steps' = Len(claim_cdl_list)
  /\ UNCHANGED <<available, cfg, step, step_ids, step_results, kb_before, thm_result,
                 thm_calls>>
  /\ UNCHANGED <<claim_cdl_list, claims>>
  /\ UNCHANGED <<formalizer_vars, matcher_vars, snapshot_vars, chain_vars>>

\* one iteration of the loop of verify_step_sequence over the built steps
VerifyBuiltStep ==
  /\ pc = "loop"
  /\ \E s \in {student_steps[Len(step_results) + 1]} :
       \E r \in {verify_single_step(s, step_results, condition, FALSE)} :
          /\ step' = s
          /\ step_ids' = Append(step_ids, s.step_id)
          /\ step_results' = Append(step_results, r.result)
          /\ condition' = r.condition
          /\ pc' = IF r.result.error_type = "global_misalignment"
                      \/ Len(step_results) + 1 = num_steps
                   THEN "goal" ELSE "loop"
  /\ kb_before' = condition
  /\ UNCHANGED <<available, solver, goal, cfg, num_steps, thm_result, thm_calls, report>>
  /\ UNCHANGED other_vars

PipelineNext == GradeWithFormalgeo \/ VerifyBuiltStep \/ GradeFinish

PipelineSpec == PipelineInit /\ [][PipelineNext]_vars

\* ================================================================ properties
\* a step has been verified: step is the step, LastResult its verdict,
\* kb_before the condition before it
StepVerified == pc \in {"loop", "goal", "done"} /\ step_results # <<>>
LastResult == step_results[Len(step_results)]
EarlierResults == SubSeq(step_results, 1, Len(step_results) - 1)

\* the ids of depends_on that are the step_id of an earlier invalid verdict
InvalidEarlierIds ==
  {step.depends_on[k] : k \in 1..Len(step.depends_on)}
    \cap {EarlierResults[i].step_id :
            i \in {j \in 1..Len(EarlierResults) : ~EarlierResults[j].is_valid}}

\* the grade call has returned the report of a successfully initialized run
GradedReport == pc = "done" /\ solver = "loaded"

\* C1 Cascade precedence: a step that depends on an earlier invalid step gets
\* the verdict cascading_error, 10 points, confidence 0.85, and its
\* root_cause_step is an invalid id of its depends_on, whatever its claim is.
C1_CascadePrecedence ==
  (StepVerified /\ InvalidEarlierIds # {}) =>
     /\ ~LastResult.is_valid
     /\ LastResult.error_type = "cascading_error"
     /\ LastResult.points_deducted = 10
     /\ LastResult.confidence = 85
     /\ LastResult.root_cause_step \in InvalidEarlierIds

\* a claim that is a fact of the KB, depending on two invalid steps, the later
\* one named first
C1_Witness ==
  /\ StepVerified
  /\ step.claim_cdl = cLineAB
  /\ step.depends_on = <<2, 1>>
  /\ InvalidEarlierIds = {1, 2}
  /\ LastResult.error_type = "cascading_error"
  /\ LastResult.root_cause_step = 2

\* a direct verify_theorem_application call has returned
TheoremApplied == pc = "ready" /\ thm_calls > 0

\* C2 Rollback fidelity: after a theorem application that ends invalid_theorem
\* or wrong_conclusion the KB equals the KB before it.
C2_RollbackFidelity ==
  (TheoremApplied /\ thm_result.error_type \in {"invalid_theorem", "wrong_conclusion"}) =>
     condition = kb_before

\* the engine added facts, the claimed one was not among them, all were undone
C2_Witness ==
  /\ TheoremApplied
  /\ thm_result.error_type = "wrong_conclusion"
  /\ condition = kb_before

\* C3 as stated: every valid, non-redundant step leaves a strict superset of
\* the KB before it.
C3_StrictMonotonicity ==
  (StepVerified /\ LastResult.is_valid /\ ~LastResult.is_redundant) =>
     /\ kb_before.predicates \subseteq condition.predicates
     /\ kb_before.facts \subseteq condition.facts
     /\ kb_before.facts # condition.facts

\* the verdict of the last step is a membership hit (S5) or an Equal claim
\* that could not be lowered (S3)
LastIsMembershipHit == LastResult.is_valid /\ LastResult.confidence = 90
LastIsUnloweredEqual ==
  /\ LastResult.is_valid
  /\ LastResult.confidence = 75
  /\ ClaimAnalysis[step.claim_cdl].parsed.predicate = sEqual

\* C3 amended: a valid step never removes anything from the KB, and a valid,
\* non-redundant step leaves a strict superset unless it is a membership hit
\* or an Equal claim that could not be lowered, which leave the KB unchanged.
C3_Monotonicity ==
  (StepVerified /\ LastResult.is_valid) =>
     /\ kb_before.predicates \subseteq condition.predicates
     /\ kb_before.facts \subseteq condition.facts
     /\ (~LastResult.is_redundant /\ ~LastIsMembershipHit /\ ~LastIsUnloweredEqual)
          => kb_before.facts # condition.facts
     /\ (LastIsMembershipHit \/ LastIsUnloweredEqual) => kb_before = condition

\* an assumption grew the KB by the angle and its mirror image
C3_Witness ==
  /\ StepVerified
  /\ LastResult.is_valid
  /\ ~LastResult.is_redundant
  /\ step.claim_cdl = cAngleABC
  /\ fAngleCBA \in condition.facts \ kb_before.facts

\* the deductions of the report before the confidence filter
RECURSIVE SumDeducted(_)
SumDeducted(deductions) ==
  IF deductions = <<>> THEN 0
  ELSE Head(deductions).deducted_points + SumDeducted(Tail(deductions))

AllDeductions ==
  IF solver = "loaded"
  THEN CompiledDeductions(step_results, identify_missing_steps(condition, goal))
  ELSE InitFailureReport.deductions

NoLowConfidence ==
  \A i \in 1..Len(AllDeductions) : AllDeductions[i].deduction_confidence_score >= 50

\* C4 as stated: with no deduction below confidence 0.5, total_points plus the
\* sum of all deducted points is 100; otherwise total_points exceeds 100 minus
\* that sum.
C4_FilterSoundnessAsStated ==
  pc = "done" =>
     IF NoLowConfidence
     THEN report.total_points + SumDeducted(AllDeductions) = 100
     ELSE report.total_points > 100 - SumDeducted(AllDeductions)

\* C4 amended: no deduction has confidence below 0.5, and total_points plus
\* the sum of all deducted points is 100 as long as that sum is at most 100;
\* beyond, total_points is 0.
C4_FilterSoundness ==
  pc = "done" =>
     /\ NoLowConfidence
     /\ IF SumDeducted(AllDeductions) <= 100
        THEN report.total_points + SumDeducted(AllDeductions) = 100
        ELSE report.total_points = 0

\* five steps at 20 points and a missed goal: 120 points deducted, score 0
C4_Witness ==
  /\ GradedReport
  /\ SumDeducted(AllDeductions) = 120
  /\ report.total_points = 0

\* C5 Score formula: total_points is max(0, 100 - the points of the deductions
\* listed in the report), the listed deductions are exactly the compiled ones
\* with confidence >= 0.5, and none below 0.5 is listed.
C5_ScoreFormula ==
  pc = "done" =>
     /\ report.total_points =
          (IF SumDeducted(report.deductions) <= 100
           THEN 100 - SumDeducted(report.deductions) ELSE 0)
     /\ report.deductions =
          SelectSeq(AllDeductions, LAMBDA d : d.deduction_confidence_score >= 50)
     /\ \A i \in 1..Len(report.deductions) :
          report.deductions[i].deduction_confidence_score >= 50

\* a deduction at exactly the threshold is listed and counted
C5_Witness ==
  /\ GradedReport
  /\ \E i \in 1..Len(report.deductions) :
       /\ report.deductions[i].deduction_confidence_score = 50
       /\ report.deductions[i].deducted_points = 20
  /\ report.total_points = 100 - SumDeducted(report.deductions)
  /\ report.total_points < 100

\* C6 The step loop never aborts: a started grade call ends with a report, the
\* report of a successfully initialized call holds one verdict per input step,
\* and no verdict has the kind global_misalignment.
C6_LoopNeverAborts ==
  /\ [](GradedReport =>
          /\ Len(step_results) = num_steps
          /\ Len(report.step_feedback) = num_steps)
  /\ [](\A i \in 1..Len(step_results) : step_results[i].error_type # "global_misalignment")
  /\ (pc \in {"loop", "goal"}) ~> (pc = "done")

\* a list whose first step is invalid is still verified to its last step
C6_Witness ==
  /\ GradedReport
  /\ num_steps >= 3
  /\ ~step_results[1].is_valid
  /\ Len(report.step_feedback) = num_steps

StrictlyIncreasing(ids) == \A i \in 1..(Len(ids) - 1) : ids[i] < ids[i + 1]

\* C7 Ordering: the i-th verdict and the i-th feedback entry belong to the
\* i-th input step; for increasing input ids the feedback ids increase.
C7_Ordering ==
  /\ Len(step_results) = Len(step_ids)
  /\ \A i \in 1..Len(step_results) : step_results[i].step_id = step_ids[i]
  /\ GradedReport =>
       /\ Len(report.step_feedback) = Len(step_ids)
       /\ \A i \in 1..Len(step_ids) : report.step_feedback[i].step_id = step_ids[i]
       /\ StrictlyIncreasing(step_ids) =>
            StrictlyIncreasing([i \in 1..Len(report.step_feedback) |->
                                  report.step_feedback[i].step_id])

\* three steps with increasing ids, one of them invalid
C7_Witness ==
  /\ GradedReport
  /\ step_ids = <<1, 2, 3>>
  /\ ~step_results[2].is_valid
  /\ report.step_feedback[3].step_id = 3

\* C8 Infrastructure error: when initialize_problem fails, no step is verified
\* and the report has total_points 0, no step feedback, goal_reached false and
\* the single deduction of 100 points, confidence 1.0, step "initialization".
C8_InfrastructureError ==
  (pc = "done" /\ solver # "loaded") =>
     /\ step_results = <<>>
     /\ report.total_points = 0
     /\ report.step_feedback = <<>>
     /\ ~report.goal_reached
     /\ Len(report.deductions) = 1
     /\ report.deductions[1].deducted_points = 100
     /\ report.deductions[1].deduction_confidence_score = 100
     /\ report.deductions[1].deduction_step.kind = "initialization"

\* load_problem raised on a list of steps: none of them was verified
C8_Witness ==
  /\ pc = "done"
  /\ available
  /\ solver = "failed"
  /\ num_steps > 0
  /\ report.step_feedback = <<>>
  /\ report.total_points = 0

\* C9 as stated: with the adapter unavailable the report still holds one
\* verdict per step.
C9_DegradedModeAsStated ==
  (pc = "done" /\ ~available) => Len(report.step_feedback) = num_steps

\* C9 amended: with the adapter unavailable there is no solver and no KB, no
\* step is verified and no equation recorded, and the report is the
\* infrastructure-error report with goal_reached false.
C9_Unavailable ==
  ~available =>
     /\ solver = "None"
     /\ condition = EmptyCondition
     /\ step_results = <<>>
     /\ pc = "done" => (report = InitFailureReport /\ ~report.goal_reached)

\* a grade call on a non-empty list without the adapter
C9_Witness ==
  /\ ~available
  /\ pc = "done"
  /\ num_steps > 0
  /\ report.step_feedback = <<>>
  /\ report.deductions[1].deduction_step.kind = "initialization"

FinalDeductions ==
  SelectSeq(report.deductions, LAMBDA d : d.deduction_step.kind = "final")

\* C10 Goal check: an unproved goal gives goal_reached false, exactly one
\* deduction "final" of 20 points and confidence 0.85 and one missing_steps
\* descriptor; a proved goal gives none of them; an empty step list scores 100
\* when the goal is among the givens and 80 otherwise.
C10_GoalCheck ==
  GradedReport =>
     /\ report.goal_reached = (goal \in condition.facts)
     /\ ~report.goal_reached =>
          /\ Len(FinalDeductions) = 1
          /\ FinalDeductions[1].deducted_points = 20
          /\ FinalDeductions[1].deduction_confidence_score = 85
          /\ Len(report.missing_steps) = 1
     /\ report.goal_reached =>
          /\ FinalDeductions = <<>>
          /\ report.missing_steps = <<>>
     /\ num_steps = 0 =>
          report.total_points = (IF goal \in Givens THEN 100 ELSE 80)

\* an empty step list on a goal that is not given
C10_Witness ==
  /\ GradedReport
  /\ num_steps = 0
  /\ goal \notin Givens
  /\ report.total_points = 80
  /\ Len(report.missing_steps) = 1

\* the analysis of the claim of the step just verified
LastAnalysis == ClaimAnalysis[step.claim_cdl]

\* the step just verified names a theorem that the matcher finds in no tier
TheoremUnmatched ==
  /\ step.theorem_name # <<>>
  /\ ~fuzzy_match_theorem(step.theorem_name, TheoremGdl).found

\* the step just verified claims a fact of a known predicate, not Equal, that
\* the KB did not hold, and no dependency of it is an earlier invalid step
NewKnownPredicateClaim ==
  /\ StepVerified
  /\ InvalidEarlierIds = {}
  /\ LastAnalysis.parsed.ok
  /\ LastAnalysis.parsed.predicate # sEqual
  /\ LastAnalysis.parsed.predicate \in kb_before.predicates
  /\ ~check_conclusion_exists(kb_before, LastAnalysis.parsed.predicate,
                              LastAnalysis.parsed.item)

\* C11 Unknown theorem: a step whose claim is of a known predicate, not Equal,
\* not in the KB, and whose theorem_name matches no theorem, is invalid with
\* unknown_theorem, 20 points, confidence 0.87, and is not admitted as an
\* assumption.
C11_UnknownTheorem ==
  (NewKnownPredicateClaim /\ TheoremUnmatched) =>
     /\ ~LastResult.is_valid
     /\ LastResult.error_type = "unknown_theorem"
     /\ LastResult.points_deducted = 20
     /\ LastResult.confidence = 87
     /\ condition = kb_before

\* a step of a known predicate with an unmatched theorem name was admitted
C11_Admitted ==
  /\ NewKnownPredicateClaim
  /\ TheoremUnmatched
  /\ LastResult.is_valid
  /\ LastResult.confidence = 75
  /\ condition # kb_before

\* a grade call on a single step that claims an equality and names a theorem
\* the matcher finds has returned its report
SingleEqualWithTheorem ==
  /\ GradedReport
  /\ num_steps = 1
  /\ Len(step_results) = 1
  /\ LastAnalysis.parsed.ok
  /\ LastAnalysis.parsed.predicate = sEqual
  /\ step.theorem_name # <<>>
  /\ fuzzy_match_theorem(step.theorem_name, TheoremGdl).found

\* C12 as stated (Scenario B): a single step claiming an equality with an
\* existing theorem that does not produce it is invalid with wrong_conclusion,
\* 20 points, confidence 0.92, the KB is unchanged and total_points is 80.
C12_WrongConclusionAsStated ==
  SingleEqualWithTheorem =>
     /\ ~LastResult.is_valid
     /\ LastResult.error_type = "wrong_conclusion"
     /\ LastResult.points_deducted = 20
     /\ LastResult.confidence = 92
     /\ condition = kb_before
     /\ report.total_points = 80

\* C12 Scenario B as the verifier grades it: the single Equal step is valid
\* with 0 points whatever theorem it names, theorem_applied is the name as
\* given, the equation is stored with confidence 0.85, or the KB is unchanged
\* with confidence 0.75 when the claim cannot be lowered, and total_points is
\* 100 when the goal is in the KB and 80 otherwise.
C12_EqualWithTheorem ==
  SingleEqualWithTheorem =>
     /\ LastResult.is_valid
     /\ LastResult.error_type = "None"
     /\ LastResult.points_deducted = 0
     /\ LastResult.theorem_applied = step.theorem_name
     /\ LastResult.confidence \in {85, 75}
     /\ LastResult.confidence = 85 =>
          /\ LastAnalysis.low.ok
          /\ condition.facts = kb_before.facts \cup {<<sEquation, LastAnalysis.low.eq>>}
     /\ LastResult.confidence = 75 => condition = kb_before
     /\ ~LastAnalysis.low.ok => LastResult.confidence = 75
     /\ report.step_feedback[1].is_valid
     /\ report.total_points = (IF goal \in condition.facts THEN 100 ELSE 80)

\* Equal(x,y) with theorem "sum" as the only step, goal not reached
C12_Witness ==
  /\ SingleEqualWithTheorem
  /\ step.claim_cdl = cEqualXY
  /\ step.theorem_name = tSum
  /\ LastResult.confidence = 85
  /\ <<sEquation, LastAnalysis.low.eq>> \in condition.facts
  /\ report.total_points = 80

\* the error kinds the specification lists
ErrorKinds ==
  {"cascading_error", "syntax_error", "unknown_predicate", "unknown_theorem",
   "invalid_theorem", "wrong_conclusion", "not_derivable", "missing_premise",
   "computation_error", "global_misalignment"}

\* the error_type values of the verdicts of the steps verified so far
StepErrorTypes ==
  {step_results[i].error_type : i \in {j \in 1..Len(step_results) : ~step_results[j].is_valid}}

\* the error_type values of the invalid entries of the report
ReportErrorTypes ==
  {report.step_feedback[i].error_type :
     i \in {j \in 1..Len(report.step_feedback) : ~report.step_feedback[j].is_valid}}
  \cup {report.deductions[i].error_type :
          i \in {j \in 1..Len(report.deductions) :
                   report.deductions[j].deduction_step.kind = "step"}}

\* verify_theorem_application has returned thm_result and the problem has not
\* been initialized again since
TheoremReturned == TheoremApplied /\ thm_result # NoThmResult

\* C13 as stated: every error_type returned by verify_single_step or
\* verify_theorem_application, and every error_type of step_feedback and of the
\* step deductions, is one of the ten listed kinds.
C13_ClosedSetAsStated ==
  /\ StepErrorTypes \subseteq ErrorKinds
  /\ (TheoremReturned /\ ~thm_result.is_valid) => thm_result.error_type \in ErrorKinds
  /\ GradedReport => ReportErrorTypes \subseteq ErrorKinds

\* C13 Error kinds: verify_single_step returns only cascading_error,
\* syntax_error, unknown_predicate and not_derivable, and so do step_feedback
\* and the step deductions; verify_theorem_application returns unknown_theorem,
\* invalid_theorem, wrong_conclusion, or formalgeo_error, which is outside the
\* listed set.
C13_ErrorKinds ==
  /\ StepErrorTypes \subseteq
       {"cascading_error", "syntax_error", "unknown_predicate", "not_derivable"}
  /\ (TheoremReturned /\ ~thm_result.is_valid) =>
        thm_result.error_type \in
          {"unknown_theorem", "invalid_theorem", "wrong_conclusion", "formalgeo_error"}
  /\ (TheoremReturned /\ thm_result.is_valid) => thm_result.error_type = "None"
  /\ GradedReport => ReportErrorTypes \subseteq StepErrorTypes
  /\ StepErrorTypes \subseteq ErrorKinds

\* a theorem application whose engine call raised
C13_Witness ==
  /\ TheoremReturned
  /\ ~thm_result.is_valid
  /\ thm_result.error_type = "formalgeo_error"
  /\ thm_result.error_type \notin ErrorKinds
  /\ condition = kb_before

\* the deductions of the report that come from steps
StepDeductionsOfReport ==
  {report.deductions[i] :
     i \in {j \in 1..Len(report.deductions) :
              report.deductions[j].deduction_step.kind = "step"}}

\* C14 as stated: every step deduction of kind K carries the points of K in
\* the taxonomy table and a confidence not below the table's confidence of K.
C14_TaxonomyFloorAsStated ==
  GradedReport =>
     \A d \in StepDeductionsOfReport :
        /\ d.deducted_points = calculate_deduction(d.error_type).points
        /\ d.deduction_confidence_score >= calculate_deduction(d.error_type).confidence

\* C14 Deduction taxonomy: every step deduction carries the points of its kind
\* (cascading_error 10, syntax_error 10, unknown_predicate 15, not_derivable
\* 20); its confidence is the table's 0.85 for cascading_error and
\* syntax_error, but 0.60 for unknown_predicate and 0.50 for not_derivable,
\* both below the table's confidence.
C14_TaxonomyPoints ==
  GradedReport =>
     \A d \in StepDeductionsOfReport :
        /\ d.error_type \in {"cascading_error", "syntax_error", "unknown_predicate",
                             "not_derivable"}
        /\ d.error_type \in {"cascading_error", "syntax_error"} =>
             (d.deducted_points = 10 /\ d.deduction_confidence_score = 85)
        /\ d.error_type = "unknown_predicate" =>
             (d.deducted_points = 15 /\ d.deduction_confidence_score = 60)
        /\ d.error_type = "not_derivable" =>
             (d.deducted_points = 20 /\ d.deduction_confidence_score = 50)

\* a report with an unknown_predicate deduction and a not_derivable deduction
C14_Witness ==
  /\ GradedReport
  /\ \E d \in StepDeductionsOfReport :
       d.error_type = "unknown_predicate" /\ d.deduction_confidence_score = 60
  /\ \E d \in StepDeductionsOfReport :
       d.error_type = "not_derivable" /\ d.deduction_confidence_score = 50

\* the facts the steps of the running grade call have added to the KB
FactsAddedBySteps ==
  IF pc \in {"loop", "goal", "done"} /\ solver = "loaded"
  THEN condition.facts \ InitialCondition.facts
  ELSE {}

ForwardOrSelfDeps ==
  {step.depends_on[k] : k \in 1..Len(step.depends_on)}
    \ {EarlierResults[i].step_id : i \in 1..Len(EarlierResults)}

\* C16 Forward or self dependency: a step whose depends_on names its own
\* step_id or a step that is not before it in the list, and that depends on no
\* invalid earlier step and has a well-formed claim, is invalid with
\* not_derivable.
C16_ForwardDependency ==
  (StepVerified /\ ForwardOrSelfDeps # {} /\ InvalidEarlierIds = {}
     /\ LastAnalysis.parsed.ok) =>
     /\ ~LastResult.is_valid
     /\ LastResult.error_type = "not_derivable"

\* the second and last step of a list depends on itself and is judged valid
C16_Ignored ==
  /\ StepVerified
  /\ Len(step_results) = 2
  /\ step.depends_on = <<step.step_id>>
  /\ LastResult.is_valid
  /\ step_results[1].is_valid
  /\ pc = "goal"

\* N: the '=' rewrite of verify_single_step, then _normalize_equal_claim
NormalForm == [c \in ClaimPool |-> _normalize_equal_claim(RewriteEquals(c))]

\* N applied to the normal form
NormalFormTwice ==
  [c \in ClaimPool |-> _normalize_equal_claim(RewriteEquals(NormalForm[c]))]

\* C17 Idempotent normalization: for the claim string s of every step, the
\* normal form of the normal form is the normal form, N(N(s)) = N(s).
C17_IdempotentNormalization ==
  StepVerified => NormalFormTwice[step.claim_cdl] = NormalForm[step.claim_cdl]

\* the step Equal(2*3*x,y) stored the side 2*Mul(3,x), which a second
\* normalization turns into Mul(2,Mul(3,x))
C17_ChainedProduct ==
  /\ StepVerified
  /\ step.claim_cdl = cEqualProduct
  /\ LastResult.is_valid
  /\ <<sEquation, LowerEquation(NormalForm[cEqualProduct]).eq>> \in condition.facts
  /\ LowerEquation(NormalForm[cEqualProduct]).eq[1]
       = <<"2", "*", "M", "u", "l", "(", "3", ",", "x", ")">>
  /\ LowerEquation(NormalFormTwice[cEqualProduct]).eq[1]
       = <<"M", "u", "l", "(", "2", ",", "M", "u", "l", "(", "3", ",", "x", ")", ")">>

\* the step just verified passed the cascade check and its claim parses as Equal
EqualStepVerified ==
  /\ StepVerified
  /\ InvalidEarlierIds = {}
  /\ LastAnalysis.parsed.ok
  /\ LastAnalysis.parsed.predicate = sEqual

\* the equation of the claim of the step just verified, as the KB stores it
LastEquation == <<sEquation, LastAnalysis.low.eq>>

\* C18 Equal fast path: a step that passes the cascade check and claims an
\* Equal is valid with 0 points whatever theorem_name it carries: confidence
\* 0.85 and not redundant when the equation is newly added, 0.80 and redundant
\* when it is already present, 0.75 and not redundant with the KB unchanged
\* when the equation cannot be lowered.
C18_EqualFastPath ==
  EqualStepVerified =>
     /\ LastResult.is_valid
     /\ LastResult.error_type = "None"
     /\ LastResult.points_deducted = 0
     /\ \/ /\ LastResult.confidence = 85
           /\ ~LastResult.is_redundant
           /\ LastAnalysis.low.ok
           /\ LastEquation \notin kb_before.facts
           /\ condition = [kb_before EXCEPT !.facts = kb_before.facts \cup {LastEquation}]
        \/ /\ LastResult.confidence = 80
           /\ LastResult.is_redundant
           /\ LastAnalysis.low.ok
           /\ LastEquation \in kb_before.facts
           /\ condition = kb_before
        \/ /\ LastResult.confidence = 75
           /\ ~LastResult.is_redundant
           /\ condition = kb_before
     /\ ~LastAnalysis.low.ok => LastResult.confidence = 75

\* Equal(x,y) claimed twice, the second time with a theorem name no theorem
\* matches: valid and new, then valid and redundant
C18_Witness ==
  /\ EqualStepVerified
  /\ Len(step_results) = 2
  /\ step.claim_cdl = cEqualXY
  /\ step.theorem_name = tMagic
  /\ step_results[1].confidence = 85
  /\ ~step_results[1].is_redundant
  /\ LastResult.confidence = 80
  /\ LastResult.is_redundant
  /\ condition = kb_before

\* the step just verified passed the cascade check and its claim parses as a
\* predicate other than Equal
PredicateStepVerified ==
  /\ StepVerified
  /\ InvalidEarlierIds = {}
  /\ LastAnalysis.parsed.ok
  /\ LastAnalysis.parsed.predicate # sEqual

\* the (predicate, item) pair claimed by the step just verified
LastFact == <<LastAnalysis.parsed.predicate, LastAnalysis.parsed.item>>

\* C19 Unknown predicate route: a non-Equal step whose predicate is not a
\* family of the KB gets the family created and its fact added as an
\* assumption: valid with confidence 0.70 on success, invalid unknown_predicate
\* with 15 points and confidence 0.60 on failure.  A later step with a
\* predicate that an earlier step made known goes through the membership check
\* (0.90) or the assumption check (0.75, or not_derivable) instead.
C19_UnknownPredicateRoute ==
  /\ (PredicateStepVerified /\ LastFact[1] \notin kb_before.predicates) =>
        /\ condition.predicates = kb_before.predicates \cup {LastFact[1]}
        /\ \/ /\ LastResult.is_valid
              /\ LastResult.confidence = 70
              /\ LastResult.points_deducted = 0
              /\ condition.facts = kb_before.facts \cup {LastFact}
           \/ /\ ~LastResult.is_valid
              /\ LastResult.error_type = "unknown_predicate"
              /\ LastResult.points_deducted = 15
              /\ LastResult.confidence = 60
              /\ condition.facts = kb_before.facts
  /\ (PredicateStepVerified /\ LastFact[1] \in kb_before.predicates
        /\ LastFact[1] \notin InitialCondition.predicates) =>
        /\ LastResult.error_type \in {"None", "not_derivable"}
        /\ LastResult.confidence = (IF LastFact \in kb_before.facts THEN 90
                                    ELSE IF LastResult.is_valid THEN 75 ELSE 50)

\* Star(AB) claimed twice: admitted with 0.70, then found in the KB
C19_Witness ==
  /\ PredicateStepVerified
  /\ Len(step_results) = 2
  /\ step.claim_cdl = cStarAB
  /\ sStar \notin InitialCondition.predicates
  /\ step_results[1].is_valid
  /\ step_results[1].confidence = 70
  /\ LastFact \in kb_before.facts
  /\ LastResult.confidence = 90

\* the claim of the step just verified was in the KB before the step
MembershipHit ==
  /\ PredicateStepVerified
  /\ LastFact[1] \in kb_before.predicates
  /\ LastFact \in kb_before.facts

\* a step of the loop that repeats the claim of the valid step before it: the
\* claim is not an Equal, no dependency of the new step is invalid, and the
\* new verdict is a membership hit that leaves the KB as it was
RepeatedClaimHits ==
  (/\ pc = "loop"
   /\ PredicateStepVerified
   /\ LastResult.is_valid
   /\ Len(step_results') = Len(step_results) + 1
   /\ step'.claim_cdl = step.claim_cdl
   /\ InvalidDeps(step'.depends_on, step_results) = {}) =>
     /\ step_results'[Len(step_results')].is_valid
     /\ step_results'[Len(step_results')].confidence = 90
     /\ ~step_results'[Len(step_results')].is_redundant
     /\ step_results'[Len(step_results')].points_deducted = 0
     /\ condition' = condition

\* the state part of C20: a membership hit is valid with confidence 0.90, not
\* redundant, 0 points, and the KB is unchanged
MembershipHitVerdict ==
  MembershipHit =>
     /\ LastResult.is_valid
     /\ LastResult.error_type = "None"
     /\ LastResult.confidence = 90
     /\ ~LastResult.is_redundant
     /\ LastResult.points_deducted = 0
     /\ condition = kb_before

PositionsOf(s, c) == {i \in 1..Len(s) : s[i] = c}

\* s has as many opening as closing brackets, and no prefix of s closes more
\* than it opens
Balanced(s) ==
  /\ Cardinality(PositionsOf(s, "(")) = Cardinality(PositionsOf(s, ")"))
  /\ \A n \in 1..Len(s) :
       Cardinality(PositionsOf(SubSeq(s, 1, n), ")"))
         <= Cardinality(PositionsOf(SubSeq(s, 1, n), "("))

\* s is a name of word characters, an opening bracket, arguments, and a
\* closing bracket that ends s
NameArgsForm(s) ==
  /\ Len(s) >= 3
  /\ s[Len(s)] = ")"
  /\ \E k \in 2..Len(s) - 1 :
       s[k] = "(" /\ \A i \in 1..k - 1 : s[i] \in WordChars

\* C22 Syntax errors: a step that depends on no invalid step and whose claim,
\* after the '=' rewrite, has unbalanced brackets or is not of the form
\* Name(args) is invalid with syntax_error, 10 points, confidence 0.85, and
\* leaves the KB unchanged.
C22_SyntaxError ==
  (StepVerified /\ InvalidEarlierIds = {}
     /\ (~Balanced(Strip(LastAnalysis.claim_cdl))
           \/ ~NameArgsForm(Strip(LastAnalysis.claim_cdl)))) =>
     /\ ~LastResult.is_valid
     /\ LastResult.error_type = "syntax_error"
     /\ LastResult.points_deducted = 10
     /\ LastResult.confidence = 85
     /\ condition = kb_before

\* Line(AB)) closes one bracket more than it opens and is graded as Line(AB),
\* a membership hit on the given
C22_UnbalancedAccepted ==
  /\ StepVerified
  /\ step.claim_cdl = cExtraClose
  /\ ~Balanced(step.claim_cdl)
  /\ LastAnalysis.parsed.ok
  /\ LastFact = fLineAB
  /\ LastResult.is_valid
  /\ LastResult.confidence = 90

\* the segments of a Shape entry: the text between "Shape(" and the closing
\* bracket, or the end of the entry when it has none, cut at the commas
SegmentsOf(entry) ==
  StrippedParts(SplitPlain(IF EndsWith(entry, ")")
                           THEN Inner(entry, sShapeOpen)
                           ELSE SubSeq(entry, Len(sShapeOpen) + 1, Len(entry)), ","))

\* every segment is two letters, consecutive segments chain cyclically, and
\* no undirected edge occurs twice
WellFormedShape(segments) ==
  /\ segments # <<>>
  /\ \A i \in 1..Len(segments) :
       Len(segments[i]) = 2 /\ \A k \in 1..2 : segments[i][k] \in Upper \cup Lower
  /\ \A i \in 1..Len(segments) : segments[i][2] = segments[(i % Len(segments)) + 1][1]
  /\ \A i, j \in 1..Len(segments) :
       i # j => {segments[i][1], segments[i][2]} # {segments[j][1], segments[j][2]}

\* the raw entries read so far, stripped
EntriesRead == {Strip(construction_cdl_raw[i]) : i \in 1..cdl_pos}

\* the entries admitted so far
EntriesAdmitted == {construction_cdl[i] : i \in 1..Len(construction_cdl)}

\* C23 Shape admission: every Shape entry of the construction_cdl that
\* _build_problem_cdl produces has segments of two letters each that chain
\* cyclically without a repeated undirected edge, and a raw Shape entry that
\* violates any of these is not admitted.
C23_ShapeAdmission ==
  /\ \A e \in EntriesAdmitted :
       StartsWith(e, sShapeOpen) => WellFormedShape(SegmentsOf(e))
  /\ \A e \in EntriesRead :
       (StartsWith(e, sShapeOpen) /\ ~WellFormedShape(SegmentsOf(e))) =>
          e \notin EntriesAdmitted

\* the raw entry Shape(AB,CD,EF without its closing bracket is in the output
\* next to a checked triangle
C23_UncheckedShape ==
  /\ cdl_pos = 2
  /\ construction_cdl = <<Wrapped(sShapeOpen, JoinComma(SegmentsOf(rTriangle))), rUnclosed>>
  /\ ~WellFormedShape(SegmentsOf(rUnclosed))
  /\ WellFormedShape(SegmentsOf(rTriangle))

\* the normalised student name of the matcher call
NormalizedStudent == normalize_theorem_name(student_name)

\* the positions of the known theorems each tier accepts for the name s
ExactHits(s) == {i \in DOMAIN available_theorems : available_theorems[i] = s}

SubstringHits(s) ==
  {i \in DOMAIN available_theorems :
     IsSubstring(s, available_theorems[i]) \/ IsSubstring(available_theorems[i], s)}

KeywordHits(s) == {i \in DOMAIN available_theorems : Overlap(s, available_theorems[i]) >= 2}

SimilarityHits(s) ==
  {i \in DOMAIN available_theorems :
     /\ RatioGreater(Ratio(s, available_theorems[i]), <<6, 10>>)
     /\ \A j \in DOMAIN available_theorems :
          ~RatioGreater(Ratio(s, available_theorems[j]), Ratio(s, available_theorems[i]))}

\* the matcher returned the theorem at one of the positions hits
ReturnedOneOf(hits) ==
  matched.found /\ \E i \in hits : matched.name = available_theorems[i]

\* the first three tiers, first hit wins, for the name s
ThreeTierCascade(s) ==
  /\ ExactHits(s) # {} => matched = [found |-> TRUE, name |-> s]
  /\ (ExactHits(s) = {} /\ SubstringHits(s) # {}) =>
        ReturnedOneOf({SetMin(SubstringHits(s))})
  /\ (ExactHits(s) = {} /\ SubstringHits(s) = {} /\ KeywordHits(s) # {}) =>
        ReturnedOneOf({i \in KeywordHits(s) :
                         \A j \in KeywordHits(s) :
                           Overlap(s, available_theorems[j]) <= Overlap(s, available_theorems[i])})

NoTierOfThree(s) == ExactHits(s) = {} /\ SubstringHits(s) = {} /\ KeywordHits(s) = {}

C29_EmptyNormalizedName ==
  (returned /\ student_name # <<>> /\ NormalizedStudent = <<>>) => ~matched.found

\* the name !! is matched to the first theorem of the library
C29_MatchedFirstTheorem ==
  /\ returned
  /\ student_name = nBangs
  /\ NormalizedStudent = <<>>
  /\ available_theorems = <<tMagic, tTriSum>>
  /\ matched = [found |-> TRUE, name |-> tMagic]

\* C25 Snapshots do not alias the live KB: after restore_solver_state(S) the
\* KB equals the KB of the moment S was taken, whatever was added before the
\* restore, also at a second restore after further additions; additions to
\* the live KB never change the content of S.
C25_SnapshotNotAliased ==
  /\ (calls # <<>> /\ calls[Len(calls)] = "restore") => heap[live_ref] = snapshot_kb
  /\ snapshot_ref # 0 => heap[snapshot_ref] = snapshot_kb

\* after snapshot, add, restore, add, restore the KB holds the fact added
\* after the first restore
C25_SecondRestoreDiffers ==
  /\ calls = <<"snapshot", "add", "restore", "add", "restore">>
  /\ live_ref = snapshot_ref
  /\ heap[live_ref] # snapshot_kb

\* the verdicts of the invalid steps, in step order
InvalidResults == SelectSeq(step_results, LAMBDA r : ~r.is_valid)

\* the deductions of the report that are labelled with a step, in order
StepDeductionSeq == SelectSeq(report.deductions, LAMBDA d : d.deduction_step.kind = "step")

\* C26 Verdict consistency: every verdict of verify_single_step is valid
\* exactly when it deducts 0 points and exactly when its error_type is None;
\* in the report of a successfully initialized grade the deductions labelled
\* with a step are one per invalid step, in step order, and the valid steps
\* do not lower total_points: the score is the one of the invalid steps alone.
C26_VerdictConsistency ==
  /\ \A i \in 1..Len(step_results) :
       /\ step_results[i].is_valid <=> step_results[i].points_deducted = 0
       /\ step_results[i].is_valid <=> step_results[i].error_type = "None"
  /\ GradedReport =>
       /\ Len(StepDeductionSeq) = Len(InvalidResults)
       /\ \A i \in 1..Len(StepDeductionSeq) :
            /\ StepDeductionSeq[i].deduction_step.id = InvalidResults[i].step_id
            /\ StepDeductionSeq[i].deducted_points = InvalidResults[i].points_deducted
       /\ report.total_points = GradingReport(InvalidResults, condition, goal).total_points

\* a report over valid and invalid steps: two step deductions, a score below 100
C26_Witness ==
  /\ GradedReport
  /\ Len(InvalidResults) = 2
  /\ Len(step_results) > 2
  /\ Len(StepDeductionSeq) = 2
  /\ report.total_points < 100

\* the positions of the steps read so far
StepPositions == 1..Len(step_results)

\* step i names the earlier step j in its depends_on
BackwardLink(i, j) ==
  j < i /\ \E k \in 1..Len(step_deps[i]) : step_deps[i][k] = step_ids[j]

\* step i is linked to step j by a chain of n or fewer backward links
RECURSIVE BackwardChain(_, _, _)
BackwardChain(i, j, n) ==
  \/ BackwardLink(i, j)
  \/ n > 1 /\ \E m \in StepPositions : BackwardLink(i, m) /\ BackwardChain(m, j, n - 1)

\* the positions in the depends_on of step i that name an earlier invalid step
InvalidDepPositions(i) ==
  {k \in 1..Len(step_deps[i]) :
     \E j \in 1..(i - 1) : step_ids[j] = step_deps[i][k] /\ ~step_results[j].is_valid}

\* C27 Invalidity propagates transitively along backward dependencies: with
\* unique step_ids, a step linked to an invalid step by a chain of depends_on
\* references to earlier steps is invalid with kind cascading_error, and its
\* root_cause_step is the first id of its own depends_on that names an
\* earlier invalid step.
C27_TransitiveCascade ==
  \A i, j \in StepPositions :
     (BackwardChain(i, j, Len(step_results)) /\ ~step_results[j].is_valid) =>
        /\ ~step_results[i].is_valid
        /\ step_results[i].error_type = "cascading_error"
        /\ InvalidDepPositions(i) # {}
        /\ step_results[i].root_cause_step = step_deps[i][SetMin(InvalidDepPositions(i))]

\* a chain of three: the first step fails on its own, the second depends on
\* the first, the third on the second only, and its root cause is the second
C27_Witness ==
  /\ Len(step_results) = 3
  /\ step_results[1].error_type = "syntax_error"
  /\ step_deps = <<<<>>, <<step_ids[1]>>, <<step_ids[2]>>>>
  /\ step_results[3].error_type = "cascading_error"
  /\ step_results[3].root_cause_step = step_ids[2]
  /\ step_ids[2] # step_ids[1]

\* C28 An invalid step changes nothing: a step whose verdict is invalid
\* (cascading_error, syntax_error, unknown_predicate or not_derivable) leaves
\* the KB as it was before the step, the set of known predicate families
\* included.
C28_InvalidStepChangesNothing ==
  (StepVerified /\ ~LastResult.is_valid) => condition = kb_before

\* a failed add of an unknown predicate: the facts are those of before, the
\* family of the claimed predicate is new
C28_SlotLeftBehind ==
  /\ StepVerified
  /\ LastResult.error_type = "unknown_predicate"
  /\ condition.facts = kb_before.facts
  /\ LastAnalysis.parsed.predicate \notin kb_before.predicates
  /\ condition.predicates = kb_before.predicates \cup {LastAnalysis.parsed.predicate}

\* the claim of step i depends on the claim of the earlier step j
ClaimDependsOn(i, j) ==
  /\ j < i
  /\ i <= Len(claims)
  /\ j <= Len(claims)
  /\ \E k \in 1..Len(claims[i].depends_on) : claims[i].depends_on[k] = claims[j].claim_id

\* C30 Cascade detection through the pipeline: among the steps that
\* _grade_with_formalgeo builds from the claims, a step whose claim depends on
\* an earlier claim whose step was graded invalid gets a cascading_error
\* verdict.
C30_PipelineCascade ==
  student_steps # <<>> =>
     \A i, j \in 1..Len(step_results) :
        (ClaimDependsOn(i, j) /\ ~step_results[j].is_valid) =>
           step_results[i].error_type = "cascading_error"

\* the first claim is malformed, the second depends on it, and the second
\* step is graded valid
C30_DependentStepValid ==
  /\ Len(step_results) = 2
  /\ Len(claims) = 2
  /\ student_steps[2].depends_on = <<claims[1].claim_id>>
  /\ step_results[1].error_type = "syntax_error"
  /\ step_results[2].is_valid
  /\ InvalidDeps(student_steps[2].depends_on, <<step_results[1]>>) = {}

====
